---- MODULE Spec2Model ----
(***************************************************************************)
(* The 1Click fee rule engine: rule matching (src/src/matcher.ts, the      *)
(* revision at lines 78-199; src/src/types.ts lines 61-144), the fee       *)
(* calculator and the RuleEngine (src/src/rule-engine.ts lines 1-112),     *)
(* configuration validation (src/src/validator.ts) and the cached token    *)
(* registry (src/src/token-registry.ts).                                   *)
(*                                                                         *)
(* A JavaScript string is a sequence of one-character strings, so that     *)
(* startsWith("!") and slice(1) are computed.  An optional field is a      *)
(* sequence of length 0 (absent) or 1 (present).  A pattern is             *)
(* [kind |-> "str", s |-> string] or [kind |-> "list", items |-> strings]. *)
(* A validity timestamp string is [kind |-> "date", ms |-> instant] when   *)
(* Date can parse it and [kind |-> "invalid"] when it cannot.              *)
(***************************************************************************)
EXTENDS Integers, Sequences, FiniteSets, TLC

VARIABLES
    config,      \* the FeeConfig handed to the RuleMatcher constructor
    rules,       \* RuleMatcher.rules: the sorted copy
    defaultFee,  \* RuleMatcher.defaultFee
    cache,       \* the registry's tokens
    now,         \* the wall clock, Date.now()
    request,     \* the SwapRequest of the last match call (optional)
    result,      \* what the last match call returned (optional)
    args,        \* arguments of a direct call of a pure helper
    ret,         \* what that call returned (optional)
    engine,      \* outcome of new RuleEngine(config) (optional)
    lastFetchTime, \* the registry's lastFetchTime
    refreshPromise, \* the registry's refreshPromise (optional: a promise's index)
    promises,    \* the promises doRefresh returned so far, each with its state
    calls        \* the asynchronous calls made on the registry and the engine

vars ==
    <<config, rules, defaultFee, cache, now, request, result, args, ret, engine,
      lastFetchTime, refreshPromise, promises, calls>>

\* What only the asynchronous calls change
asyncVars == <<refreshPromise, promises, calls>>

----------------------------------------------------------------------------
(* Bounds of the model *)

MaxRules == 2
MaxTime == 3
MaxListLen == 2

----------------------------------------------------------------------------
(* Optional values *)

None == <<>>
Some(x) == <<x>>
Has(o) == o # <<>>
Get(o) == o[1]

----------------------------------------------------------------------------
(* Strings *)

EMPTY == <<>>
STAR == <<"*">>
BANG == <<"!">>
ETH == <<"e", "t", "h">>
ETH_UPPER == <<"E", "T", "H">>
ARB == <<"a", "r", "b">>
POLYGON == <<"p", "o", "l", "y", "g", "o", "n">>
NOT_ETH == <<"!", "e", "t", "h">>
NOT_NOT_ETH == <<"!", "!", "e", "t", "h">>
NOT_STAR == <<"!", "*">>
STAR_STAR == <<"*", "*">>
USDC == <<"U", "S", "D", "C">>
WBTC == <<"W", "B", "T", "C">>
ASSET1 == <<"a", "1">>
ASSET2 == <<"a", "2">>
ASSET3 == <<"a", "3">>
UNKNOWN_ASSET == <<"z", "z">>

Str(s) == [kind |-> "str", s |-> s]
List(items) == [kind |-> "list", items |-> items]

\* JavaScript truthiness of an optional pattern or optional string field:
\* undefined and "" are falsy, every other string and every array is truthy.
Truthy(field) ==
    /\ Has(field)
    /\ \/ Get(field).kind # "str"
       \/ Get(field).s # EMPTY

----------------------------------------------------------------------------
(* Pattern matcher *)

startsWith(s, c) == Len(s) >= 1 /\ s[1] = c

slice1(s) == IF Len(s) = 0 THEN s ELSE Tail(s)

matchesSinglePattern_noNegation(pattern, value) ==
    IF pattern = STAR THEN TRUE ELSE pattern = value

matchesSinglePattern(pattern, value) ==
    IF pattern = STAR THEN TRUE
    ELSE IF startsWith(pattern, "!") THEN value # slice1(pattern)
    ELSE pattern = value

matchesValue(pattern, value) ==
    IF pattern.kind = "list"
    THEN \E i \in 1..Len(pattern.items) : matchesSinglePattern(pattern.items[i], value)
    ELSE matchesSinglePattern(pattern.s, value)

----------------------------------------------------------------------------
(* Token matcher *)

matchesToken_ignoreSymbol(matcher, token) ==
    LET failed(f) == Truthy(matcher[f]) /\ ~matchesValue(Get(matcher[f]), token[f])
    IN  IF failed("assetId") \/ failed("blockchain")
        THEN None
        ELSE Some([token |-> token,
                   matchedBy |-> {f \in {"assetId", "blockchain", "symbol"} : Truthy(matcher[f])}])

\* assetId handed to matchesSinglePattern, which takes no list: a list of
\* asset ids matches nothing
matchesToken_assetIdSingle(matcher, token) ==
    LET failed(f) == Truthy(matcher[f]) /\ ~matchesValue(Get(matcher[f]), token[f])
        failedAssetId ==
            /\ Truthy(matcher.assetId)
            /\ \/ Get(matcher.assetId).kind = "list"
               \/ ~matchesSinglePattern(Get(matcher.assetId).s, token.assetId)
    IN  IF failedAssetId \/ failed("blockchain") \/ failed("symbol")
        THEN None
        ELSE Some([token |-> token,
                   matchedBy |-> {f \in {"assetId", "blockchain", "symbol"} : Truthy(matcher[f])}])

\* The result is null (None) or a TokenMatchInfo; matchedBy is the set of the
\* attribute names set to true.
matchesToken(matcher, token) ==
    LET failed(f) == Truthy(matcher[f]) /\ ~matchesValue(Get(matcher[f]), token[f])
    IN  IF failed("assetId") THEN None
        ELSE IF failed("blockchain") THEN None
        ELSE IF failed("symbol") THEN None
        ELSE Some([token |-> token,
                   matchedBy |-> {f \in {"assetId", "blockchain", "symbol"} : Truthy(matcher[f])}])

----------------------------------------------------------------------------
(* Validity window *)

NoDate == None
DateStr(ms) == Some([kind |-> "date", s |-> <<"d">>, ms |-> ms])
InvalidDateStr == Some([kind |-> "invalid", s |-> <<"x">>])

\* new Date(dateStr).getTime() is NaN: parseDate throws.
parseDateThrows(dateStr) == dateStr.kind = "invalid"

parseDate(dateStr) == dateStr.ms

\* Whether isRuleValidNow throws: valid_until is parsed only when the
\* valid_from check let the rule through.
isRuleValidNowThrows(rule, t) ==
    \/ Truthy(rule.valid_from) /\ parseDateThrows(Get(rule.valid_from))
    \/ /\ ~(Truthy(rule.valid_from) /\ t < parseDate(Get(rule.valid_from)))
       /\ Truthy(rule.valid_until)
       /\ parseDateThrows(Get(rule.valid_until))

isRuleValidNow_exclusive(rule, t) ==
    /\ ~(Truthy(rule.valid_from) /\ t <= parseDate(Get(rule.valid_from)))
    /\ ~(Truthy(rule.valid_until) /\ t >= parseDate(Get(rule.valid_until)))

isRuleValidNow_memoized(rule, t) ==
    /\ ~(Truthy(rule.valid_from) /\ 0 < parseDate(Get(rule.valid_from)))
    /\ ~(Truthy(rule.valid_until) /\ 0 > parseDate(Get(rule.valid_until)))

\* t is the value Date.now() returns in this call of isRuleValidNow.
isRuleValidNow(rule, t) ==
    IF Truthy(rule.valid_from) /\ t < parseDate(Get(rule.valid_from)) THEN FALSE
    ELSE IF Truthy(rule.valid_until) /\ t > parseDate(Get(rule.valid_until)) THEN FALSE
    ELSE TRUE

----------------------------------------------------------------------------
(* Rule order *)

DefaultPriority == 100

\* a.priority || 100: a priority of 0 is taken for a missing one
priorityOf_orDefault(rule) ==
    IF Has(rule.priority) /\ Get(rule.priority) # 0 THEN Get(rule.priority) ELSE DefaultPriority

\* a.priority ?? 100
priorityOf(rule) == IF Has(rule.priority) THEN Get(rule.priority) ELSE DefaultPriority

\* The comparator handed to Array.prototype.sort.
compare(a, b) == priorityOf(b) - priorityOf(a)

\* Array.prototype.sort is stable: an element goes after every element
\* already placed that the comparator does not order after it.
RECURSIVE insertRule(_, _)
insertRule(sorted, rule) ==
    IF sorted = <<>> THEN <<rule>>
    ELSE IF compare(Head(sorted), rule) > 0
         THEN <<rule>> \o sorted
         ELSE <<Head(sorted)>> \o insertRule(Tail(sorted), rule)

RECURSIVE sortFrom(_, _)
sortFrom(sorted, rest) ==
    IF rest = <<>> THEN sorted
    ELSE sortFrom(insertRule(sorted, Head(rest)), Tail(rest))

RECURSIVE reverseSeq(_)
reverseSeq(s) == IF s = <<>> THEN <<>> ELSE reverseSeq(Tail(s)) \o <<Head(s)>>

sortRulesByPriority_unsorted(rs) == rs

sortRulesByPriority_unstable(rs) == sortFrom(<<>>, reverseSeq(rs))

\* [...rules].sort(...): a sorted copy; the argument is left as it was.
sortRulesByPriority(rs) == sortFrom(<<>>, rs)

----------------------------------------------------------------------------
(* Rule selection *)

\* TokenRegistry.getToken: the cache is a map from asset id to token.
getToken(assetId) ==
    IF assetId \in DOMAIN cache THEN Some(cache[assetId]) ELSE None

\* !originToken || !destinationToken
unresolved(originToken, destinationToken) ==
    ~Has(originToken) \/ ~Has(destinationToken)

skipRule_windowOnly(rule, t) == ~isRuleValidNow(rule, t)

\* if (!rule.enabled) continue; if (!this.isRuleValidNow(rule)) continue;
skipRule(rule, t) == ~rule.enabled \/ ~isRuleValidNow(rule, t)

bothMatch_either(inMatchInfo, outMatchInfo) == Has(inMatchInfo) \/ Has(outMatchInfo)

\* if (inMatchInfo && outMatchInfo)
bothMatch(inMatchInfo, outMatchInfo) == Has(inMatchInfo) /\ Has(outMatchInfo)

Thrown == [threw |-> TRUE]

matchedResult_originOnly(rule, originToken, destinationToken, inMatchInfo, outMatchInfo) ==
    [threw |-> FALSE, matched |-> TRUE, rule |-> Some(rule), fee |-> rule.fee,
     matchDetails |-> Some([originToken |-> originToken,
                            destinationToken |-> destinationToken,
                            in |-> inMatchInfo, out |-> inMatchInfo])]

matchedResult(rule, originToken, destinationToken, inMatchInfo, outMatchInfo) ==
    [threw |-> FALSE, matched |-> TRUE, rule |-> Some(rule), fee |-> rule.fee,
     matchDetails |-> Some([originToken |-> originToken,
                            destinationToken |-> destinationToken,
                            in |-> inMatchInfo, out |-> outMatchInfo])]

unmatchedResult(originToken, destinationToken) ==
    [threw |-> FALSE, matched |-> FALSE, rule |-> None, fee |-> defaultFee,
     matchDetails |-> Some([originToken |-> originToken,
                            destinationToken |-> destinationToken,
                            in |-> None, out |-> None])]

unresolvedResult_withDetails ==
    [threw |-> FALSE, matched |-> FALSE, rule |-> None, fee |-> defaultFee,
     matchDetails |-> Some([in |-> None, out |-> None])]

unresolvedResult ==
    [threw |-> FALSE, matched |-> FALSE, rule |-> None, fee |-> defaultFee,
     matchDetails |-> None]

\* for (const rule of this.rules): rs is what is left of this.rules and
\* reads[k] the instant Date.now() returns for the k-th rule of rs.
RECURSIVE matchLoop(_, _, _, _)
matchLoop(rs, reads, originToken, destinationToken) ==
    IF rs = <<>> THEN unmatchedResult(originToken, destinationToken)
    ELSE LET rule == Head(rs)
             t == Head(reads)
             inMatchInfo == matchesToken(rule.match.in, originToken)
             outMatchInfo == matchesToken(rule.match.out, destinationToken)
         IN  IF rule.enabled /\ isRuleValidNowThrows(rule, t) THEN Thrown
             ELSE IF skipRule(rule, t)
                  THEN matchLoop(Tail(rs), Tail(reads), originToken, destinationToken)
             ELSE IF bothMatch(inMatchInfo, outMatchInfo)
                  THEN matchedResult(rule, originToken, destinationToken,
                                     inMatchInfo, outMatchInfo)
             ELSE matchLoop(Tail(rs), Tail(reads), originToken, destinationToken)

\* match.in tried on the destination token and match.out on the origin token
match_swapped(req, reads) ==
    LET originToken == getToken(req.originAsset)
        destinationToken == getToken(req.destinationAsset)
    IN  IF unresolved(originToken, destinationToken)
        THEN unresolvedResult
        ELSE matchLoop(rules, reads, Get(destinationToken), Get(originToken))

\* RuleMatcher.match, with the instants its clock reads return.
match(req, reads) ==
    LET originToken == getToken(req.originAsset)
        destinationToken == getToken(req.destinationAsset)
    IN  IF unresolved(originToken, destinationToken)
        THEN unresolvedResult
        ELSE matchLoop(rules, reads, Get(originToken), Get(destinationToken))

----------------------------------------------------------------------------
(* Inputs: tokens, fees, rules, configurations *)

Token(assetId, blockchain, symbol, decimals) ==
    [assetId |-> assetId, blockchain |-> blockchain, symbol |-> symbol,
     decimals |-> decimals]

TOKEN1 == Token(ASSET1, ETH, USDC, 6)
TOKEN2 == Token(ASSET2, ARB, WBTC, 8)
TOKEN3 == Token(ASSET3, ETH, WBTC, 8)

Registry == (ASSET1 :> TOKEN1) @@ (ASSET2 :> TOKEN2)

Assets == {ASSET1, ASSET2, UNKNOWN_ASSET}

Fee(bps, recipient) ==
    [kind |-> "fee", type |-> "bps", bps |-> bps, recipient |-> recipient]

FeeList(items) == [kind |-> "list", items |-> items]

TokenMatcher(assetId, blockchain, symbol) ==
    [assetId |-> assetId, blockchain |-> blockchain, symbol |-> symbol]

\* From eth to any chain.
MatchFromEth ==
    [in |-> TokenMatcher(None, Some(Str(ETH)), None),
     out |-> TokenMatcher(None, Some(Str(STAR)), None)]

\* From any chain to a chain other than eth.
MatchToNonEth ==
    [in |-> TokenMatcher(None, Some(Str(STAR)), None),
     out |-> TokenMatcher(None, Some(Str(NOT_ETH)), None)]

\* Several constraints on each side, one of them the empty string.
MatchMixed ==
    [in |-> TokenMatcher(None, Some(Str(ETH)), Some(Str(EMPTY))),
     out |-> TokenMatcher(Some(Str(ASSET2)), None, Some(List(<<WBTC, USDC>>)))]

RuleBody(enabled, priority, m, valid_from, valid_until) ==
    [enabled |-> enabled, priority |-> priority, match |-> m,
     valid_from |-> valid_from, valid_until |-> valid_until]

RulePool ==
    {RuleBody(TRUE, p, m, NoDate, NoDate) :
        p \in {None, Some(100), Some(200)}, m \in {MatchFromEth, MatchToNonEth}}
    \cup {RuleBody(TRUE, Some(0), MatchFromEth, NoDate, NoDate),
          RuleBody(FALSE, Some(200), MatchFromEth, NoDate, NoDate),
          RuleBody(FALSE, None, MatchToNonEth, NoDate, NoDate),
          RuleBody(TRUE, Some(200), MatchFromEth, DateStr(1), NoDate),
          RuleBody(TRUE, Some(200), MatchFromEth, NoDate, DateStr(1)),
          RuleBody(TRUE, Some(200), MatchFromEth, DateStr(1), DateStr(2)),
          RuleBody(TRUE, None, MatchMixed, NoDate, NoDate)}

RuleIds == <<"r1", "r2", "r3", "r4">>

\* The rule at position i of the configuration: odd positions carry a single
\* fee, even positions a split fee.
FeeOf(i) ==
    IF i % 2 = 1 THEN Fee(10 * i, "fees.near")
    ELSE FeeList(<<Fee(i, "a.near"), Fee(2 * i, "b.near")>>)

Rule(i, body) ==
    [id |-> RuleIds[i], enabled |-> body.enabled, priority |-> body.priority,
     match |-> body.match, fee |-> FeeOf(i),
     valid_from |-> body.valid_from, valid_until |-> body.valid_until]

RECURSIVE RuleLists(_)
RuleLists(n) ==
    IF n = 0 THEN {<<>>}
    ELSE {Append(rs, Rule(n, b)) : rs \in RuleLists(n - 1), b \in RulePool}

FeeConfig(rs) ==
    [version |-> "1.0.0", default_fee |-> Fee(20, "fees.near"), rules |-> rs]

Configs == UNION {{FeeConfig(rs) : rs \in RuleLists(n)} : n \in 0..MaxRules}

----------------------------------------------------------------------------
(* The matcher: construction, then match calls as the clock advances *)

\* new RuleMatcher(config, tokenRegistry)
Init ==
    /\ config \in Configs
    /\ defaultFee = config.default_fee
    /\ rules = sortRulesByPriority(config.rules)
    /\ cache = Registry
    /\ engine = None
    /\ lastFetchTime = 0
    /\ refreshPromise = None
    /\ promises = <<>>
    /\ calls = <<>>
    /\ now = 0
    /\ request = None
    /\ result = None
    /\ args = None
    /\ ret = None

\* One call of RuleMatcher.match.  The clock reads t, the instant of the last
\* call or the next one, at every rule of the call.
Match ==
    \E o \in Assets, d \in Assets, t \in {now, now + 1} \cap (0..MaxTime) :
        LET req == [originAsset |-> o, destinationAsset |-> d]
            reads == [k \in 1..Len(rules) |-> t]
        IN  /\ request' = Some(req)
            /\ now' = t
            /\ result' = Some(match(req, reads))
            /\ UNCHANGED <<asyncVars, engine, lastFetchTime, config, rules, defaultFee, cache, args, ret>>

Next == Match

Spec == Init /\ [][Next]_vars

----------------------------------------------------------------------------
(* The pattern matcher and the token matcher, called on their own *)

StrPool ==
    {EMPTY, STAR, BANG, ETH, ETH_UPPER, ARB, POLYGON, NOT_ETH, NOT_NOT_ETH,
     NOT_STAR, STAR_STAR}

ListItemPool == {EMPTY, STAR, ETH, ARB, NOT_ETH}

Values == {EMPTY, STAR, BANG, ETH, ETH_UPPER, ARB, POLYGON, NOT_ETH}

RECURSIVE SeqsUpTo(_, _)
SeqsUpTo(S, n) ==
    IF n = 0 THEN {<<>>}
    ELSE SeqsUpTo(S, n - 1)
         \cup {Append(q, x) : q \in {r \in SeqsUpTo(S, n - 1) : Len(r) = n - 1}, x \in S}

Patterns ==
    {Str(p) : p \in StrPool} \cup {List(q) : q \in SeqsUpTo(ListItemPool, MaxListLen)}

TokenMatchers ==
    {TokenMatcher(a, b, y) :
        a \in {None, Some(Str(ASSET1)), Some(Str(EMPTY)), Some(List(<<ASSET1, ASSET2>>))},
        b \in {None, Some(Str(ETH)), Some(Str(NOT_ETH)), Some(Str(STAR)), Some(Str(EMPTY)),
               Some(List(<<>>)), Some(List(<<ARB, NOT_ETH>>))},
        y \in {None, Some(Str(USDC)), Some(Str(EMPTY)), Some(List(<<USDC, WBTC>>))}}

Tokens == {TOKEN1, TOKEN2, TOKEN3}

PureCalls ==
    {[op |-> "matchesValue", pattern |-> p, value |-> v] : p \in Patterns, v \in Values}
    \cup {[op |-> "matchesToken", matcher |-> m, token |-> tk] :
            m \in TokenMatchers, tk \in Tokens}

InitPure ==
    /\ args \in PureCalls
    /\ ret = None
    /\ config = FeeConfig(<<>>)
    /\ defaultFee = config.default_fee
    /\ rules = <<>>
    /\ cache = Registry
    /\ engine = None
    /\ lastFetchTime = 0
    /\ refreshPromise = None
    /\ promises = <<>>
    /\ calls = <<>>
    /\ now = 0
    /\ request = None
    /\ result = None

CallMatchesValue ==
    /\ args.op = "matchesValue"
    /\ ret = None
    /\ ret' = Some(matchesValue(args.pattern, args.value))
    /\ UNCHANGED <<asyncVars, engine, lastFetchTime, config, rules, defaultFee, cache, now, request, result, args>>

CallMatchesToken ==
    /\ args.op = "matchesToken"
    /\ ret = None
    /\ ret' = Some(matchesToken(args.matcher, args.token))
    /\ UNCHANGED <<asyncVars, engine, lastFetchTime, config, rules, defaultFee, cache, now, request, result, args>>

NextPure == CallMatchesValue \/ CallMatchesToken

SpecPure == InitPure /\ [][NextPure]_vars

----------------------------------------------------------------------------
(* What the claims speak of, stated from the configuration as the caller   *)
(* wrote it                                                                *)

Called == Has(request) /\ Has(result)

Req == Get(request)

Res == Get(result)

BothResolved(req) ==
    req.originAsset \in DOMAIN cache /\ req.destinationAsset \in DOMAIN cache

Positions == 1..Len(config.rules)

EffectivePriority(r) == IF r.priority = None THEN 100 ELSE r.priority[1]

InWindow(r, t) ==
    /\ r.valid_from = NoDate \/ t >= r.valid_from[1].ms
    /\ r.valid_until = NoDate \/ t <= r.valid_until[1].ms

Fits(r, req) ==
    /\ matchesToken(r.match.in, cache[req.originAsset]) # None
    /\ matchesToken(r.match.out, cache[req.destinationAsset]) # None

\* Positions of the enabled rules that are valid at instant t and match req.
EligibleAt(req, t) ==
    {i \in Positions :
        /\ config.rules[i].enabled
        /\ InWindow(config.rules[i], t)
        /\ Fits(config.rules[i], req)}

Returned(i) == Res.rule = Some(config.rules[i])

\* C1: with both tokens resolved, when two or more enabled, currently valid
\* rules match the request and one of them has a priority strictly above all
\* the others, match returns that rule, wherever it sits in the configuration.
C1_HighestPriorityWins ==
    (Called /\ BothResolved(Req)) =>
        LET E == EligibleAt(Req, now)
        IN  \A i \in E :
                (/\ Cardinality(E) >= 2
                 /\ \A j \in E \ {i} :
                        EffectivePriority(config.rules[i]) > EffectivePriority(config.rules[j]))
                => Returned(i)

\* The highest-priority matching rule is returned although a lower-priority
\* matching rule precedes it in the configuration.
C1_Witness ==
    /\ Called
    /\ BothResolved(Req)
    /\ \E i, j \in EligibleAt(Req, now) :
        /\ j < i
        /\ EffectivePriority(config.rules[i]) > EffectivePriority(config.rules[j])
        /\ Returned(i)

IsPermutationOfConfig ==
    /\ Len(rules) = Len(config.rules)
    /\ \A i \in Positions : \E k \in 1..Len(rules) : rules[k] = config.rules[i]

PositionOf(r) == CHOOSE i \in Positions : config.rules[i] = r

\* C2: among the matching, enabled, currently valid rules that share the
\* highest effective priority, match returns the one that comes first in the
\* configuration; the list kept by the matcher is the configuration's rules by
\* descending priority with ties in configuration order, and sorting it again
\* gives the same list.
C2_TiesKeepConfigOrder ==
    /\ IsPermutationOfConfig
    /\ \A k \in 1..(Len(rules) - 1) :
        \/ EffectivePriority(rules[k]) > EffectivePriority(rules[k + 1])
        \/ /\ EffectivePriority(rules[k]) = EffectivePriority(rules[k + 1])
           /\ PositionOf(rules[k]) < PositionOf(rules[k + 1])
    /\ sortRulesByPriority(rules) = rules
    /\ (Called /\ BothResolved(Req)) =>
        LET E == EligibleAt(Req, now)
        IN  \A i \in E :
                (\A j \in E \ {i} :
                    \/ EffectivePriority(config.rules[i]) > EffectivePriority(config.rules[j])
                    \/ /\ EffectivePriority(config.rules[i]) = EffectivePriority(config.rules[j])
                       /\ i < j)
                => Returned(i)

\* Two matching rules tie on effective priority, one by the default and one
\* explicitly, and the earlier one is returned.
C2_Witness ==
    /\ Called
    /\ BothResolved(Req)
    /\ \E i, j \in EligibleAt(Req, now) :
        /\ i < j
        /\ config.rules[i].priority # config.rules[j].priority
        /\ EffectivePriority(config.rules[i]) = EffectivePriority(config.rules[j])
        /\ Returned(i)

\* C3: with both tokens resolved, matched is true exactly when some rule is
\* enabled, valid at the instant of the call and matches origin and
\* destination; then result.rule is such a rule and result.fee its fee;
\* otherwise there is no rule and the fee is the configuration's default_fee.
C3_MatchedIffEligible ==
    (Called /\ BothResolved(Req)) =>
        LET E == EligibleAt(Req, now)
        IN  /\ ~Res.threw
            /\ Res.matched <=> E # {}
            /\ Res.matched =>
                \E i \in E : Returned(i) /\ Res.fee = config.rules[i].fee
            /\ ~Res.matched => Res.rule = None /\ Res.fee = config.default_fee

\* A call matched a rule carrying a split fee although another rule of the
\* configuration did not match.
C3_Witness ==
    /\ Called
    /\ BothResolved(Req)
    /\ Res.matched
    /\ Res.fee.kind = "list"
    /\ \E i \in Positions : config.rules[i].enabled /\ ~Fits(config.rules[i], Req)

\* C4: when the origin or the destination asset is not in the registry, the
\* result is matched=false with the default fee, no rule and no matchDetails,
\* and the call does not fail.
C4_UnresolvedGivesDefault ==
    (Called /\ ~BothResolved(Req)) =>
        /\ ~Res.threw
        /\ ~Res.matched
        /\ Res.rule = None
        /\ Res.fee = config.default_fee
        /\ Res.matchDetails = None

\* The origin is unknown, the destination resolves, and an enabled rule with
\* a wildcard origin side matches the destination: the default fee is returned.
C4_Witness ==
    /\ Called
    /\ Req.originAsset \notin DOMAIN cache
    /\ Req.destinationAsset \in DOMAIN cache
    /\ \E i \in Positions :
        /\ config.rules[i].enabled
        /\ config.rules[i].match.in.blockchain = Some(Str(STAR))
        /\ matchesToken(config.rules[i].match.out, cache[Req.destinationAsset]) # None
    /\ Res.fee = config.default_fee
    /\ Res.matchDetails = None

\* C5: a rule with enabled=false is never the rule match returns.
C5_DisabledNeverReturned ==
    Called =>
        /\ \A i \in Positions : ~config.rules[i].enabled => ~Returned(i)
        /\ Res.rule # None => Get(Res.rule).enabled

\* A disabled rule has the highest priority and is the only rule that fits the
\* request; the call returns the default fee.
C5_Witness ==
    /\ Called
    /\ BothResolved(Req)
    /\ \E i \in Positions :
        /\ ~config.rules[i].enabled
        /\ Fits(config.rules[i], Req)
        /\ \A j \in Positions \ {i} :
            /\ EffectivePriority(config.rules[j]) < EffectivePriority(config.rules[i])
            /\ ~Fits(config.rules[j], Req)
        /\ Len(config.rules) >= 2
    /\ ~Res.matched
    /\ Res.fee = config.default_fee

Windowed(r) == r.valid_from # NoDate \/ r.valid_until # NoDate

\* C6: a rule is eligible at the instant of the call iff (valid_from is absent
\* or now >= valid_from) and (valid_until is absent or now <= valid_until):
\* a returned rule is inside its window, bounds included, and an enabled
\* matching rule inside its window is never passed over for the default fee
\* or for a rule of lower priority.
C6_WindowInclusive ==
    /\ \A i \in Positions :
        isRuleValidNow(config.rules[i], now) <=> InWindow(config.rules[i], now)
    /\ (Called /\ BothResolved(Req)) =>
        \A i \in Positions :
            LET r == config.rules[i]
            IN  /\ Returned(i) => InWindow(r, now)
                /\ (r.enabled /\ Fits(r, Req) /\ InWindow(r, now)) =>
                    /\ Res.matched
                    /\ EffectivePriority(Get(Res.rule)) >= EffectivePriority(r)
                /\ (r.valid_from # NoDate /\ now = r.valid_from[1].ms - 1) => ~Returned(i)
                /\ (r.valid_until # NoDate /\ now = r.valid_until[1].ms + 1) => ~Returned(i)

\* A rule with both bounds is returned by a call made exactly at its
\* valid_until, which lies after its valid_from.
C6_Witness ==
    /\ Called
    /\ \E i \in Positions :
        /\ Returned(i)
        /\ config.rules[i].valid_from # NoDate
        /\ config.rules[i].valid_until # NoDate
        /\ now = config.rules[i].valid_until[1].ms
        /\ now > config.rules[i].valid_from[1].ms

\* The rule the configuration selects for req at instant t (None when no rule
\* is eligible): highest effective priority, earliest position among equals.
SelectionAt(req, t) ==
    LET E == EligibleAt(req, t)
    IN  IF E = {} THEN None
        ELSE Some(config.rules[
                CHOOSE i \in E : \A j \in E \ {i} :
                    \/ EffectivePriority(config.rules[i]) > EffectivePriority(config.rules[j])
                    \/ /\ EffectivePriority(config.rules[i]) = EffectivePriority(config.rules[j])
                       /\ i < j])

FeeAt(req, t) ==
    IF SelectionAt(req, t) = None THEN config.default_fee ELSE Get(SelectionAt(req, t)).fee

\* C7: on one matcher instance, a call that follows an earlier call for the
\* same request returns the selection that holds at the instant of this call:
\* a windowed rule only when the call is inside its window, the fallback (a
\* lower-priority rule or the default fee) outside it, whatever the clock read
\* at construction or at the earlier call.
C7_AgesInAndOut ==
    [][(/\ Called
        /\ request' = request
        /\ BothResolved(Req))
       => /\ Get(result').rule = SelectionAt(Req, now')
          /\ Get(result').fee = FeeAt(Req, now')
          /\ \A i \in Positions :
                (Windowed(config.rules[i]) /\ ~InWindow(config.rules[i], now'))
                => Get(result').rule # Some(config.rules[i])
          /\ rules' = rules]_vars

\* A rule whose window had not opened when the matcher was built is returned
\* by a later call inside the window, ahead of a matching lower-priority rule.
C7_Witness ==
    /\ Called
    /\ BothResolved(Req)
    /\ \E i, j \in Positions :
        /\ Returned(i)
        /\ config.rules[i].valid_from # NoDate
        /\ config.rules[i].valid_from[1].ms > 0
        /\ now >= config.rules[i].valid_from[1].ms
        /\ j # i
        /\ config.rules[j].enabled
        /\ ~Windowed(config.rules[j])
        /\ Fits(config.rules[j], Req)
        /\ EffectivePriority(config.rules[j]) < EffectivePriority(config.rules[i])

----------------------------------------------------------------------------
(* The pattern matcher and the token matcher against their references *)

\* Every value a pattern is tried on.
Universe == Values \cup {USDC, WBTC, ASSET1, ASSET2, ASSET3}

\* The values a single pattern matches: every value for "*", every value but
\* v for "!v", the pattern itself otherwise.
MatchSet(p) ==
    IF p = <<"*">> THEN Universe
    ELSE IF Len(p) >= 1 /\ Head(p) = "!"
         THEN {x \in Universe : x # SubSeq(p, 2, Len(p))}
         ELSE {x \in Universe : x = p}

ReferenceMatches(pattern, value) ==
    IF pattern.kind = "list"
    THEN value \in UNION {MatchSet(pattern.items[i]) : i \in 1..Len(pattern.items)}
    ELSE value \in MatchSet(pattern.s)

ValueCall == args # None /\ args.op = "matchesValue" /\ ret # None

\* C8: matchesValue agrees with the reference on every pattern and value: "*"
\* matches everything, "!v" everything but v, any other string only itself
\* (case-sensitive), a list iff one of its elements matches; so ["arb", "!eth"]
\* matches "arb" and "polygon" and not "eth".
C8_PatternReference ==
    ValueCall =>
        /\ Get(ret) = ReferenceMatches(args.pattern, args.value)
        /\ args.pattern = Str(STAR) => Get(ret)
        /\ args.pattern = Str(NOT_ETH) => (Get(ret) <=> args.value # ETH)
        /\ args.pattern = Str(ETH) => (Get(ret) <=> args.value = ETH)
        /\ args.pattern = List(<<ARB, NOT_ETH>>) => (Get(ret) <=> args.value # ETH)
        /\ args.pattern = List(<<>>) => ~Get(ret)

\* ["arb", "!eth"] was tried on "polygon" and matched, through the negation.
C8_Witness ==
    /\ ValueCall
    /\ args.pattern = List(<<ARB, NOT_ETH>>)
    /\ args.value = POLYGON
    /\ Get(ret) = TRUE

Attributes == {"assetId", "blockchain", "symbol"}

TokenCall == args # None /\ args.op = "matchesToken" /\ ret # None

Present(matcher, f) == matcher[f] # None

\* A constraint the matcher evaluates: present and not the empty string.
Constrains(matcher, f) == matcher[f] # None /\ matcher[f] # Some(Str(EMPTY))

Succeeds(matcher, token) == matchesToken(matcher, token) # None

\* matcher2 mentions every attribute matcher1 mentions, with the same pattern.
Extends(matcher2, matcher1) ==
    \A f \in Attributes : Present(matcher1, f) => matcher2[f] = matcher1[f]

\* C9 as stated: a token matcher succeeds iff every constraint present in it
\* matches the token's attribute.
C9_AsStated ==
    TokenCall =>
        (Get(ret) # None <=>
            \A f \in Attributes :
                Present(args.matcher, f) =>
                    ReferenceMatches(Get(args.matcher[f]), args.token[f]))

\* C9, amended: a token matcher succeeds iff every constraint that is present
\* and not the empty string matches the token's attribute; an absent field and
\* an empty-string field place no constraint, and adding a constraint to a
\* matcher never makes it succeed on a token it failed on.
C9_TokenMatcher ==
    TokenCall =>
        /\ Get(ret) # None <=>
            \A f \in Attributes :
                Constrains(args.matcher, f) =>
                    ReferenceMatches(Get(args.matcher[f]), args.token[f])
        /\ \A m2 \in TokenMatchers :
            (Extends(m2, args.matcher) /\ Succeeds(m2, args.token)) => Get(ret) # None
        /\ (\A f \in Attributes : ~Present(args.matcher, f)) => Get(ret) # None

\* A matcher that constrains the chain and carries an empty-string symbol
\* succeeded on a token whose chain fits and whose symbol is not empty.
C9_Witness ==
    /\ TokenCall
    /\ args.matcher.blockchain = Some(Str(ETH))
    /\ args.matcher.symbol = Some(Str(EMPTY))
    /\ args.token.symbol = USDC
    /\ Get(ret) # None

Details == Get(Res.matchDetails)

NamesPresent(matcher) == {f \in Attributes : Present(matcher, f)}

NamesConstraining(matcher) == {f \in Attributes : Constrains(matcher, f)}

EvidenceShape ==
    /\ Res.matchDetails # None
    /\ Details.originToken = cache[Req.originAsset]
    /\ Details.destinationToken = cache[Req.destinationAsset]
    /\ Res.matched <=> Details.in # None
    /\ Res.matched <=> Details.out # None
    /\ Res.matched =>
        /\ Get(Details.in).token = cache[Req.originAsset]
        /\ Get(Details.out).token = cache[Req.destinationAsset]

\* C10 as stated: on success matchedBy names exactly the attributes present in
\* the selected rule's match.in and match.out.
C10_AsStated ==
    (Called /\ BothResolved(Req)) =>
        /\ EvidenceShape
        /\ Res.matched =>
            /\ Get(Details.in).matchedBy = NamesPresent(Get(Res.rule).match.in)
            /\ Get(Details.out).matchedBy = NamesPresent(Get(Res.rule).match.out)

\* C10, amended: with both tokens resolved, matchDetails carries originToken
\* and destinationToken, and in and out exactly when matched; on success in
\* and out hold the resolved origin and destination tokens and matchedBy names
\* exactly the attributes of the selected rule's match.in and match.out that
\* are present and not the empty string.
C10_MatchEvidence ==
    (Called /\ BothResolved(Req)) =>
        /\ EvidenceShape
        /\ Res.matched =>
            /\ Get(Details.in).matchedBy = NamesConstraining(Get(Res.rule).match.in)
            /\ Get(Details.out).matchedBy = NamesConstraining(Get(Res.rule).match.out)

\* A rule matching by several attributes was selected, its empty-string
\* constraint is not in the evidence, and origin and destination differ.
C10_Witness ==
    /\ Called
    /\ Res.matched
    /\ Get(Res.rule).match.in.symbol = Some(Str(EMPTY))
    /\ Get(Details.in).matchedBy = {"blockchain"}
    /\ Get(Details.out).matchedBy = {"assetId", "symbol"}
    /\ Get(Details.in).token # Get(Details.out).token

----------------------------------------------------------------------------
(* Fee calculator (src/src/rule-engine.ts, the revision at lines 1-112)     *)
(*                                                                         *)
(* An amount argument is [kind |-> "bigint", v |-> integer],               *)
(* [kind |-> "string", s |-> characters] or [kind |-> "other"] (a value    *)
(* that is neither).  A bps argument is a JavaScript number:               *)
(* [kind |-> "finite", halves |-> h] is the number h / 2, so that 3 is     *)
(* halves 6 and 1.5 is halves 3; the other kinds are "NaN", "Infinity",    *)
(* "-Infinity" and "other" (not of type number).  A call either throws     *)
(* or returns a string: [threw |-> TRUE] or [threw |-> FALSE, value |-> s].*)

BPS_DIVISOR == 10000
MAX_BPS == 10000

DigitChars == <<"0", "1", "2", "3", "4", "5", "6", "7", "8", "9">>

IsDigit(c) == \E d \in 1..10 : DigitChars[d] = c

DigitValue(c) == (CHOOSE d \in 1..10 : DigitChars[d] = c) - 1

\* The characters String.prototype.trim() removes: the WhiteSpace and
\* LineTerminator code points of ECMAScript.  A code point that has no escape
\* in a TLA+ string is written by its name, "U+000B" being the one character
\* U+000B.
WhiteSpaceChars ==
    {"\t", "U+000B", "\f", " ", "U+00A0", "U+FEFF", "U+1680", "U+2000", "U+2001",
     "U+2002", "U+2003", "U+2004", "U+2005", "U+2006", "U+2007", "U+2008", "U+2009",
     "U+200A", "U+202F", "U+205F", "U+3000"}

LineTerminatorChars == {"\n", "\r", "U+2028", "U+2029"}

IsWhitespace(c) == c \in WhiteSpaceChars \cup LineTerminatorChars

\* String.prototype.trim() === ""
trimIsEmpty(s) == \A i \in 1..Len(s) : IsWhitespace(s[i])

\* /^-?\d+$/.test(s)
matchesIntegerRegex(s) ==
    LET body == IF Len(s) >= 1 /\ s[1] = "-" THEN Tail(s) ELSE s
    IN  Len(body) >= 1 /\ \A i \in 1..Len(body) : IsDigit(body[i])

RECURSIVE digitsValue(_)
digitsValue(ds) ==
    IF Len(ds) = 0 THEN 0
    ELSE 10 * digitsValue(SubSeq(ds, 1, Len(ds) - 1)) + DigitValue(ds[Len(ds)])

\* BigInt(s) of a string the regular expression accepted
BigIntOfString(s) ==
    IF s[1] = "-" THEN 0 - digitsValue(Tail(s)) ELSE digitsValue(s)

RECURSIVE natToString(_)
natToString(n) ==
    IF n < 10 THEN <<DigitChars[n + 1]>>
    ELSE Append(natToString(n \div 10), DigitChars[(n % 10) + 1])

\* BigInt.prototype.toString()
bigintToString(n) == IF n < 0 THEN <<"-">> \o natToString(0 - n) ELSE natToString(n)

\* BigInt division truncates toward zero
bigintDiv(a, b) == IF a >= 0 THEN a \div b ELSE 0 - ((0 - a) \div b)

Threw == [threw |-> TRUE]
Returns(v) == [threw |-> FALSE, value |-> v]

parseAmount_rejectNegativeBigint(amount) ==
    IF amount.kind = "bigint"
    THEN IF amount.v < 0 THEN Threw ELSE Returns(amount.v)
    ELSE IF amount.kind # "string" THEN Threw
    ELSE IF trimIsEmpty(amount.s) THEN Threw
    ELSE IF ~matchesIntegerRegex(amount.s) THEN Threw
    ELSE IF BigIntOfString(amount.s) < 0 THEN Threw
    ELSE Returns(BigIntOfString(amount.s))

parseAmount_coerce(amount) ==
    IF amount.kind = "bigint" THEN Returns(amount.v)
    ELSE IF amount.kind # "string" THEN Threw
    ELSE IF trimIsEmpty(amount.s) THEN Returns(0)
    ELSE IF ~matchesIntegerRegex(amount.s) THEN Threw
    ELSE IF BigIntOfString(amount.s) < 0 THEN Threw
    ELSE Returns(BigIntOfString(amount.s))

parseAmount(amount) ==
    IF amount.kind = "bigint" THEN Returns(amount.v)
    ELSE IF amount.kind # "string" THEN Threw
    ELSE IF trimIsEmpty(amount.s) THEN Threw
    ELSE IF ~matchesIntegerRegex(amount.s) THEN Threw
    ELSE IF BigIntOfString(amount.s) < 0 THEN Threw
    ELSE Returns(BigIntOfString(amount.s))

validateBpsThrows_noCap(bps) ==
    \/ bps.kind # "finite"
    \/ bps.halves % 2 # 0
    \/ bps.halves < 0

\* Whether validateBps throws
validateBpsThrows(bps) ==
    \/ bps.kind # "finite"
    \/ bps.halves % 2 # 0
    \/ bps.halves < 0
    \/ bps.halves > 2 * MAX_BPS

\* BigInt(bps) of a number validateBps accepted
BigIntOfNumber(bps) == bps.halves \div 2

calculateFee_ceiling(amount, bps) ==
    LET amountBigInt == parseAmount(amount)
    IN  IF amountBigInt.threw THEN Threw
        ELSE IF validateBpsThrows(bps) THEN Threw
        ELSE Returns(bigintToString(
                bigintDiv(amountBigInt.value * BigIntOfNumber(bps) + (BPS_DIVISOR - 1),
                          BPS_DIVISOR)))

\* The fee rounded to the nearest unit, halves upwards
calculateFee_roundNearest(amount, bps) ==
    LET amountBigInt == parseAmount(amount)
    IN  IF amountBigInt.threw THEN Threw
        ELSE IF validateBpsThrows(bps) THEN Threw
        ELSE Returns(bigintToString(
                bigintDiv(amountBigInt.value * BigIntOfNumber(bps) + BPS_DIVISOR \div 2,
                          BPS_DIVISOR)))

calculateFee(amount, bps) ==
    LET amountBigInt == parseAmount(amount)
    IN  IF amountBigInt.threw THEN Threw
        ELSE IF validateBpsThrows(bps) THEN Threw
        ELSE Returns(bigintToString(
                bigintDiv(amountBigInt.value * BigIntOfNumber(bps), BPS_DIVISOR)))

calculateAmountAfterFee_ownRounding(amount, bps) ==
    LET amountBigInt == parseAmount(amount)
    IN  IF amountBigInt.threw THEN Threw
        ELSE IF validateBpsThrows(bps) THEN Threw
        ELSE Returns(bigintToString(
                amountBigInt.value
                - bigintDiv(amountBigInt.value * BigIntOfNumber(bps) + 5000, BPS_DIVISOR)))

calculateAmountAfterFee(amount, bps) ==
    LET amountBigInt == parseAmount(amount)
    IN  IF amountBigInt.threw THEN Threw
        ELSE IF validateBpsThrows(bps) THEN Threw
        ELSE LET fee == BigIntOfString(
                            calculateFee([kind |-> "bigint", v |-> amountBigInt.value],
                                         bps).value)
             IN  Returns(bigintToString(amountBigInt.value - fee))

RECURSIVE sumBps(_)
sumBps(items) ==
    IF Len(items) = 0 THEN 0 ELSE sumBps(SubSeq(items, 1, Len(items) - 1)) + items[Len(items)].bps

getTotalBps_firstOnly(fee) ==
    IF fee.kind = "list" THEN (IF Len(fee.items) = 0 THEN 0 ELSE fee.items[1].bps) ELSE fee.bps

getTotalBps(fee) ==
    IF fee.kind = "list" THEN sumBps(fee.items) ELSE fee.bps

----------------------------------------------------------------------------
(* The fee calculator called on its own *)

BigintAmount(v) == [kind |-> "bigint", v |-> v]
StringAmount(s) == [kind |-> "string", s |-> s]
OtherAmount == [kind |-> "other"]

Num(n) == [kind |-> "finite", halves |-> 2 * n]
Halves(h) == [kind |-> "finite", halves |-> h]

AmountValues == {0, 1, 7, 100, 9999, 10000, 10001, 123456}

LargeAmountValues == {1000000}

NegativeAmountValues == {0 - 1, 0 - 5, 0 - 20000}

MalformedAmountStrings ==
    {<<>>, <<" ">>, <<"\t">>, <<"\r">>, <<"\f", "U+00A0">>, <<"1", "2", "a">>,
     <<"1", ".", "5">>, <<" ", "1", "2">>,
     <<"1", "2", " ">>, <<"1", " ", "2">>, <<"1", "2", "\n">>, <<"a", "b", "c">>, <<"-">>,
     <<"-", "-", "1">>, <<"+", "1">>, <<"0", "x", "1", "0">>, <<"1", "e", "3">>}

\* Digit strings that are not what toString gives: leading zeros, minus zero
OddAmountStrings == {<<"0", "0", "7">>, <<"0", "0">>, <<"-", "0">>}

AmountArgs ==
    {BigintAmount(v) : v \in AmountValues \cup NegativeAmountValues}
    \cup {StringAmount(bigintToString(v)) : v \in AmountValues \cup NegativeAmountValues}
    \cup {StringAmount(s) : s \in MalformedAmountStrings \cup OddAmountStrings}
    \cup {OtherAmount}

LargeAmountArgs ==
    {BigintAmount(v) : v \in LargeAmountValues}
    \cup {StringAmount(bigintToString(v)) : v \in LargeAmountValues}

SmallBpsArgs == {Num(0), Num(1), Num(3), Num(20), Num(100)}

BpsArgs ==
    SmallBpsArgs
    \cup {Num(9999), Num(10000), Num(10001), Num(20000), Num(0 - 1), Num(0 - 10000)}
    \cup {Halves(1), Halves(3), Halves(0 - 1), Halves(20001)}
    \cup {[kind |-> k] : k \in {"NaN", "Infinity", "-Infinity", "other"}}

FeeCalls ==
    {[op |-> "fee", amount |-> a, bps |-> b] : a \in AmountArgs, b \in BpsArgs}
    \cup {[op |-> "fee", amount |-> a, bps |-> b] : a \in LargeAmountArgs, b \in SmallBpsArgs}

\* ret is the list of the calls made on args so far, each with its outcome
InitFee ==
    /\ args \in FeeCalls
    /\ ret = <<>>
    /\ config = FeeConfig(<<>>)
    /\ defaultFee = config.default_fee
    /\ rules = <<>>
    /\ cache = Registry
    /\ engine = None
    /\ lastFetchTime = 0
    /\ refreshPromise = None
    /\ promises = <<>>
    /\ calls = <<>>
    /\ now = 0
    /\ request = None
    /\ result = None

CalledFn(fn) == \E k \in 1..Len(ret) : ret[k].fn = fn

OutcomeOf(fn) == ret[CHOOSE k \in 1..Len(ret) : ret[k].fn = fn].out

CallCalculateFee ==
    /\ args.op = "fee"
    /\ ~CalledFn("calculateFee")
    /\ ret' = Append(ret, [fn |-> "calculateFee", out |-> calculateFee(args.amount, args.bps)])
    /\ UNCHANGED <<asyncVars, engine, lastFetchTime, config, rules, defaultFee, cache, now, request, result, args>>

CallCalculateAmountAfterFee ==
    /\ args.op = "fee"
    /\ ~CalledFn("calculateAmountAfterFee")
    /\ ret' = Append(ret, [fn |-> "calculateAmountAfterFee",
                           out |-> calculateAmountAfterFee(args.amount, args.bps)])
    /\ UNCHANGED <<asyncVars, engine, lastFetchTime, config, rules, defaultFee, cache, now, request, result, args>>

NextFee == CallCalculateFee \/ CallCalculateAmountAfterFee

SpecFee == InitFee /\ [][NextFee]_vars

----------------------------------------------------------------------------
(* What the fee claims speak of: decimal strings read digit by digit and   *)
(* the arguments a caller may pass                                          *)

RECURSIVE Pow10(_)
Pow10(k) == IF k = 0 THEN 1 ELSE 10 * Pow10(k - 1)

AllDigits(s) ==
    /\ Len(s) >= 1
    /\ \A i \in 1..Len(s) : s[i] \in {"0", "1", "2", "3", "4", "5", "6", "7", "8", "9"}

DigitOf(c) ==
    CASE c = "0" -> 0 [] c = "1" -> 1 [] c = "2" -> 2 [] c = "3" -> 3 [] c = "4" -> 4
      [] c = "5" -> 5 [] c = "6" -> 6 [] c = "7" -> 7 [] c = "8" -> 8 [] c = "9" -> 9

RECURSIVE PlaceSum(_, _)
PlaceSum(s, i) ==
    IF i > Len(s) THEN 0 ELSE DigitOf(s[i]) * Pow10(Len(s) - i) + PlaceSum(s, i + 1)

\* s is the decimal numeral of the natural number n, without leading zeros
IsDecimalOf(s, n) ==
    /\ AllDigits(s)
    /\ Len(s) > 1 => s[1] # "0"
    /\ PlaceSum(s, 1) = n

\* The argument is a non-negative integer: a bigint, or a string of digits
IsNonNegativeAmount(amount) ==
    \/ amount.kind = "bigint" /\ amount.v >= 0
    \/ amount.kind = "string" /\ AllDigits(amount.s)

AmountOf(amount) == IF amount.kind = "bigint" THEN amount.v ELSE PlaceSum(amount.s, 1)

IsBpsInRange(bps) ==
    /\ bps.kind = "finite"
    /\ \E b \in 0..10000 : bps.halves = b + b

BpsOf(bps) == CHOOSE b \in 0..10000 : bps.halves = b + b

FeeCall == args.op = "fee"

\* C11: for a non-negative integer amount a, given as a bigint or as a string
\* of digits, and an integer bps b in 0..10000, the strings returned by
\* calculateFee(a, b) and calculateAmountAfterFee(a, b) are decimal numerals
\* whose values add up to a exactly.
C11_FeePlusRemainder ==
    (/\ FeeCall
     /\ IsNonNegativeAmount(args.amount)
     /\ IsBpsInRange(args.bps)
     /\ CalledFn("calculateFee")
     /\ CalledFn("calculateAmountAfterFee")) =>
        LET fee == OutcomeOf("calculateFee")
            remainder == OutcomeOf("calculateAmountAfterFee")
        IN  /\ ~fee.threw
            /\ ~remainder.threw
            /\ \E f \in 0..AmountOf(args.amount) :
                /\ IsDecimalOf(fee.value, f)
                /\ IsDecimalOf(remainder.value, AmountOf(args.amount) - f)

\* Both were called on an amount whose fee is rounded down.
C11_Witness ==
    /\ FeeCall
    /\ args.amount = StringAmount(<<"1", "0", "0", "0", "1">>)
    /\ args.bps = Num(3)
    /\ CalledFn("calculateFee")
    /\ CalledFn("calculateAmountAfterFee")
    /\ OutcomeOf("calculateFee") = Returns(<<"3">>)
    /\ OutcomeOf("calculateAmountAfterFee") = Returns(<<"9", "9", "9", "8">>)

\* C12: for a non-negative integer amount a and an integer bps b in 0..10000,
\* calculateFee returns the decimal numeral of floor(a * b / 10000): the
\* number q with 10000 * q <= a * b < 10000 * (q + 1).  The result depends on
\* the value of a only, not on whether a came as a string or as a bigint, and
\* (1000000, 20), (1000000, 1), (100, 3), (10000, 3) give 2000, 100, 0, 3.
C12_FeeIsFloor ==
    (/\ FeeCall
     /\ IsNonNegativeAmount(args.amount)
     /\ IsBpsInRange(args.bps)
     /\ CalledFn("calculateFee")) =>
        LET fee == OutcomeOf("calculateFee")
            a == AmountOf(args.amount)
            b == BpsOf(args.bps)
        IN  /\ ~fee.threw
            /\ \E q \in 0..a :
                /\ IsDecimalOf(fee.value, q)
                /\ 10000 * q <= a * b
                /\ a * b < 10000 * (q + 1)
            /\ (a = 1000000 /\ b = 20) => fee.value = <<"2", "0", "0", "0">>
            /\ (a = 1000000 /\ b = 1) => fee.value = <<"1", "0", "0">>
            /\ (a = 100 /\ b = 3) => fee.value = <<"0">>
            /\ (a = 10000 /\ b = 3) => fee.value = <<"3">>

\* A string amount whose product with bps is not a multiple of 10000 was
\* rounded down.
C12_Witness ==
    /\ FeeCall
    /\ args.amount = StringAmount(<<"9", "9", "9", "9">>)
    /\ args.bps = Num(9999)
    /\ CalledFn("calculateFee")
    /\ OutcomeOf("calculateFee") = Returns(<<"9", "9", "9", "8">>)

\* The bps argument is below 0, above 10000 or not an integer
IsBadBps(bps) == ~IsBpsInRange(bps)

\* C13: calculateFee and calculateAmountAfterFee throw, returning nothing,
\* whenever bps is below 0, above 10000 or not an integer; with a valid amount
\* they accept bps 0 and bps 10000.
C13_BadBpsThrows ==
    FeeCall =>
        \A k \in 1..Len(ret) :
            /\ IsBadBps(args.bps) => ret[k].out = Threw
            /\ (/\ IsNonNegativeAmount(args.amount)
                /\ args.bps \in {Num(0), Num(10000)}) => ~ret[k].out.threw

\* Both functions threw on bps 10001 with a valid amount.
C13_Witness ==
    /\ FeeCall
    /\ args.amount = BigintAmount(100)
    /\ args.bps = Num(10001)
    /\ CalledFn("calculateFee")
    /\ CalledFn("calculateAmountAfterFee")
    /\ OutcomeOf("calculateFee") = Threw
    /\ OutcomeOf("calculateAmountAfterFee") = Threw

\* The amount argument is not a non-negative integer: a negative bigint, or a
\* string that is empty or has a character that is not a digit (a minus sign
\* and whitespace included)
IsBadAmount(amount) ==
    \/ amount.kind = "bigint" /\ amount.v < 0
    \/ amount.kind = "string" /\ ~AllDigits(amount.s)

\* C14: calculateFee and calculateAmountAfterFee throw, returning nothing, for
\* every amount that is not a non-negative integer: a negative value given as
\* a string or as a bigint, an empty string, a string with a character that is
\* not a digit, a string with leading or trailing whitespace.
C14_AsStated ==
    (FeeCall /\ IsBadAmount(args.amount)) =>
        \A k \in 1..Len(ret) : ret[k].out = Threw

----------------------------------------------------------------------------
(* Split fees: match on configurations whose default fee may be a list,    *)
(* and getTotalBps on a fee or on the fee a match returned                  *)

SplitDefault == FeeList(<<Fee(14, "a.near"), Fee(6, "b.near")>>)

SplitRulePool ==
    {RuleBody(TRUE, None, MatchFromEth, NoDate, NoDate),
     RuleBody(TRUE, Some(200), MatchToNonEth, NoDate, NoDate),
     RuleBody(FALSE, Some(200), MatchFromEth, NoDate, NoDate)}

SplitConfigs ==
    {[c EXCEPT !.default_fee = d] :
        c \in {x \in Configs : \A i \in 1..Len(x.rules) :
                \E b \in SplitRulePool : x.rules[i] = Rule(i, b)},
        d \in {Fee(20, "fees.near"), SplitDefault}}

FeeArgs ==
    {Fee(0, "a.near"), Fee(10000, "a.near"),
     FeeList(<<Fee(6, "b.near"), Fee(14, "a.near")>>),
     FeeList(<<Fee(5, "a.near")>>),
     FeeList(<<Fee(10, "a.near"), Fee(0, "b.near"), Fee(10, "a.near")>>)}

InitSplit ==
    /\ config \in SplitConfigs
    /\ defaultFee = config.default_fee
    /\ rules = sortRulesByPriority(config.rules)
    /\ cache = Registry
    /\ engine = None
    /\ lastFetchTime = 0
    /\ refreshPromise = None
    /\ promises = <<>>
    /\ calls = <<>>
    /\ now = 0
    /\ request = None
    /\ result = None
    /\ args = None
    /\ ret = None

\* getTotalBps(fee), on a fee of the caller's or on the fee of the last result
CallGetTotalBps ==
    \E f \in FeeArgs \cup {Get(r).fee : r \in {result} \ {None}} :
        /\ args' = Some(f)
        /\ ret' = Some(getTotalBps(f))
        /\ UNCHANGED <<asyncVars, engine, lastFetchTime, config, rules, defaultFee, cache, now, request, result>>

NextSplit == Match \/ CallGetTotalBps

SpecSplit == InitSplit /\ [][NextSplit]_vars

\* The fee the configuration gives rule i, and its default fee, as written
ConfiguredFee(i) == config.rules[i].fee

SameMembers(fee, configured) ==
    /\ fee.kind = "list"
    /\ configured.kind = "list"
    /\ Len(fee.items) = Len(configured.items)
    /\ \A k \in 1..Len(configured.items) :
        /\ fee.items[k].bps = configured.items[k].bps
        /\ fee.items[k].recipient = configured.items[k].recipient

RECURSIVE TotalOf(_, _)
TotalOf(items, S) ==
    IF S = {} THEN 0
    ELSE LET k == CHOOSE x \in S : TRUE
         IN  items[k].bps + TotalOf(items, S \ {k})

\* C15: getTotalBps of a single fee is its bps and of a fee list the sum of
\* the members' bps; when the fee of the selected rule, or the default fee, is
\* a list, match returns that list: the same members in the same order, each
\* with its own bps and recipient.
C15_SplitFees ==
    /\ (Has(args) /\ Has(ret)) =>
        LET f == Get(args)
        IN  IF f.kind = "list"
            THEN Get(ret) = TotalOf(f.items, 1..Len(f.items))
            ELSE Get(ret) = f.bps
    /\ Called =>
        /\ \A i \in Positions :
            (Returned(i) /\ ConfiguredFee(i).kind = "list") =>
                SameMembers(Res.fee, ConfiguredFee(i))
        /\ (~Res.matched /\ config.default_fee.kind = "list") =>
                SameMembers(Res.fee, config.default_fee)

\* A match returned the split fee of the second rule and getTotalBps gave the
\* sum of its two members.
C15_Witness ==
    /\ Called
    /\ Len(config.rules) >= 2
    /\ Returned(2)
    /\ Res.fee = FeeList(<<Fee(2, "a.near"), Fee(4, "b.near")>>)
    /\ args = Some(Res.fee)
    /\ ret = Some(6)

----------------------------------------------------------------------------
(* Configuration validation (src/src/validator.ts)                          *)
(*                                                                         *)
(* A document is a FeeConfig as src/src/types.ts types it: version and a   *)
(* rule's id are strings ("" when empty), bps and priority are integers,   *)
(* a recipient is a sequence of characters.  The typeof tests and the      *)
(* tests for a missing default_fee, match, match.in, match.out or fee      *)
(* cannot fire on such a document.  A ValidationError is                   *)
(* [path |-> segments, message |-> text]: the path rules[0].fee[1].bps is  *)
(* <<"rules", "[0]", "fee", "[1]", "bps">>.                                *)

IndexSegment == <<"[0]", "[1]", "[2]", "[3]", "[4]">>

ValidationError(path, message) == [path |-> path, message |-> message]

LowerAlnum ==
    {"a", "b", "c", "d", "e", "f", "g", "h", "i", "j", "k", "l", "m", "n", "o", "p", "q",
     "r", "s", "t", "u", "v", "w", "x", "y", "z",
     "0", "1", "2", "3", "4", "5", "6", "7", "8", "9"}

HexChars == {"a", "b", "c", "d", "e", "f", "0", "1", "2", "3", "4", "5", "6", "7", "8", "9"}

Separators == {"-", "_"}

\* The pieces of s between its dots
RECURSIVE splitDots(_, _)
splitDots(s, piece) ==
    IF s = <<>> THEN <<piece>>
    ELSE IF Head(s) = "." THEN <<piece>> \o splitDots(Tail(s), <<>>)
    ELSE splitDots(Tail(s), Append(piece, Head(s)))

\* (?:[a-z\d]+[-_])*[a-z\d]+
matchesAccountHead(p) ==
    /\ Len(p) >= 1
    /\ \A i \in 1..Len(p) : p[i] \in LowerAlnum \cup Separators
    /\ p[1] \in LowerAlnum
    /\ p[Len(p)] \in LowerAlnum
    /\ \A i \in 1..(Len(p) - 1) : ~(p[i] \in Separators /\ p[i + 1] \in Separators)

\* [a-z\d]+[-_]*[a-z\d]+
matchesAccountLabel(p) ==
    \E a \in 1..Len(p), b \in 1..Len(p) :
        /\ a < b
        /\ \A i \in 1..a : p[i] \in LowerAlnum
        /\ \A i \in (a + 1)..(b - 1) : p[i] \in Separators
        /\ \A i \in b..Len(p) : p[i] \in LowerAlnum

\* NEAR_ACCOUNT_REGEX.test(account)
matchesNearAccountRegex(account) ==
    LET pieces == splitDots(account, <<>>)
    IN  /\ matchesAccountHead(pieces[1])
        /\ \A k \in 2..Len(pieces) : matchesAccountLabel(pieces[k])

\* NEAR_IMPLICIT_ACCOUNT_REGEX.test(account)
matchesImplicitAccountRegex(account) ==
    Len(account) = 64 /\ \A i \in 1..Len(account) : account[i] \in HexChars

isValidNearAccount(account) ==
    IF Len(account) < 2 \/ Len(account) > 64 THEN FALSE
    ELSE matchesNearAccountRegex(account) \/ matchesImplicitAccountRegex(account)

validateSingleFee(fee, path) ==
    (IF fee.type # "bps"
     THEN <<ValidationError(Append(path, "type"), "fee.type must be 'bps'")>>
     ELSE <<>>)
    \o (IF fee.bps < 0
        THEN <<ValidationError(Append(path, "bps"), "fee.bps must be a non-negative number")>>
        ELSE <<>>)
    \o (IF fee.recipient = <<>>
        THEN <<ValidationError(Append(path, "recipient"),
                               "fee.recipient is required and must be a string")>>
        ELSE IF ~isValidNearAccount(fee.recipient)
        THEN <<ValidationError(Append(path, "recipient"),
                               "fee.recipient must be a valid NEAR account")>>
        ELSE <<>>)

\* for (let i = 0; i < fee.length; i++): the members from the i-th on
RECURSIVE validateFeeMembers(_, _, _)
validateFeeMembers(items, i, path) ==
    IF i > Len(items) THEN <<>>
    ELSE validateSingleFee(items[i], Append(path, IndexSegment[i]))
         \o validateFeeMembers(items, i + 1, path)

RECURSIVE validateFeeMembers_untilFirstBad(_, _, _)
validateFeeMembers_untilFirstBad(items, i, path) ==
    IF i > Len(items) THEN <<>>
    ELSE LET errors == validateSingleFee(items[i], Append(path, IndexSegment[i]))
         IN  IF errors # <<>> THEN errors
             ELSE validateFeeMembers_untilFirstBad(items, i + 1, path)

validateFee_untilFirstBad(fee, path) ==
    IF fee.kind = "list"
    THEN IF Len(fee.items) = 0
         THEN <<ValidationError(path, "fee array must not be empty")>>
         ELSE validateFeeMembers_untilFirstBad(fee.items, 1, path)
    ELSE validateSingleFee(fee, path)

validateFee(fee, path) ==
    IF fee.kind = "list"
    THEN IF Len(fee.items) = 0
         THEN <<ValidationError(path, "fee array must not be empty")>>
         ELSE validateFeeMembers(fee.items, 1, path)
    ELSE validateSingleFee(fee, path)

\* matcher.blockchain || matcher.symbol || matcher.assetId
hasIdentifier(matcher) ==
    Truthy(matcher.blockchain) \/ Truthy(matcher.symbol) \/ Truthy(matcher.assetId)

validateTokenMatcher(matcher, path) ==
    IF ~hasIdentifier(matcher)
    THEN <<ValidationError(path,
                           "At least one of blockchain, symbol, or assetId must be defined")>>
    ELSE <<>>

\* index counts from 1 here; the path carries the JavaScript index
validateRule(rule, index) ==
    LET path == <<"rules", IndexSegment[index]>>
    IN  (IF rule.id = ""
         THEN <<ValidationError(Append(path, "id"), "id is required and must be a string")>>
         ELSE <<>>)
        \o (IF Has(rule.priority) /\ Get(rule.priority) < 0
            THEN <<ValidationError(Append(path, "priority"),
                                   "priority must be a non-negative number")>>
            ELSE <<>>)
        \o validateTokenMatcher(rule.match.in, path \o <<"match", "in">>)
        \o validateTokenMatcher(rule.match.out, path \o <<"match", "out">>)
        \o validateFee(rule.fee, Append(path, "fee"))

\* ruleIds when the loop reaches rule i: the truthy ids of the rules before it
ruleIdsBefore(rs, i) == {rs[j].id : j \in {k \in 1..(i - 1) : rs[k].id # ""}}

RECURSIVE validateRules(_, _)
validateRules(rs, i) ==
    IF i > Len(rs) THEN <<>>
    ELSE validateRule(rs[i], i)
         \o (IF rs[i].id # "" /\ rs[i].id \in ruleIdsBefore(rs, i)
             THEN <<ValidationError(<<"rules", IndexSegment[i], "id">>,
                                    "Duplicate rule id: " \o rs[i].id)>>
             ELSE <<>>)
         \o validateRules(rs, i + 1)

validateConfig(cfg) ==
    LET errors ==
            (IF cfg.version = ""
             THEN <<ValidationError(<<"version">>, "version is required and must be a string")>>
             ELSE <<>>)
            \o validateFee(cfg.default_fee, <<"default_fee">>)
            \o validateRules(cfg.rules, 1)
    IN  [valid |-> Len(errors) = 0, errors |-> errors]

----------------------------------------------------------------------------
(* RuleEngine (src/src/rule-engine.ts lines 73-112) over a                  *)
(* CachedTokenRegistry (src/src/token-registry.ts)                          *)

\* TokenRegistryConfig.cacheTtlMs, in ticks of the model's clock
cacheTtlMs == 1

\* CachedTokenRegistry.isCacheValid at instant t
isCacheValid(t) == t - lastFetchTime < cacheTtlMs

\* TokenRegistry.isFresh at instant t
isFresh(t) == isCacheValid(t)

\* new RuleEngine(feeConfig): the thrown error carries every error of the
\* validation, in order, or the instance is built
constructEngine(cfg) ==
    LET validation == validateConfig(cfg)
    IN  IF ~validation.valid
        THEN [constructed |-> FALSE, message |-> validation.errors]
        ELSE [constructed |-> TRUE, message |-> <<>>]

NotReady == [threw |-> TRUE, error |-> "Token registry is not ready"]

engineMatch_noReadinessCheck(req, reads, t) == match(req, reads)

\* RuleEngine.match; t is the instant isFresh reads
engineMatch(req, reads, t) ==
    IF ~isFresh(t) THEN NotReady ELSE match(req, reads)

----------------------------------------------------------------------------
(* The engine: construction on a document and match calls.  The calls of    *)
(* ensureReady, which run step by step through the registry's refresh, and  *)
(* the engine's specifications follow the registry's steps below.           *)

FEES_NEAR == <<"f", "e", "e", "s", ".", "n", "e", "a", "r">>
PARTNER_NEAR == <<"p", "-", "1", ".", "n", "e", "a", "r">>
UPPER_NEAR == <<"F", "e", "e", "s", ".", "n", "e", "a", "r">>
DOTDOT_NEAR == <<"a", ".", ".", "n", "e", "a", "r">>
SHORT_LABEL == <<"f", "e", "e", "s", ".", "n">>
ONE_CHAR == <<"a">>

FeeDoc(type, bps, recipient) ==
    [kind |-> "fee", type |-> type, bps |-> bps, recipient |-> recipient]

GoodFee == FeeDoc("bps", 20, FEES_NEAR)

GoodSplit == FeeList(<<FeeDoc("bps", 0, FEES_NEAR), FeeDoc("bps", 10000, PARTNER_NEAR)>>)

\* Two members within the cap whose rates add up to more than the cap
OverSplit == FeeList(<<FeeDoc("bps", 6000, FEES_NEAR), FeeDoc("bps", 6000, PARTNER_NEAR)>>)

DefaultFeeDocs ==
    {GoodFee, GoodSplit, OverSplit,
     FeeDoc("bps", 10001, FEES_NEAR),
     FeeDoc("percent", 0 - 1, UPPER_NEAR),
     FeeList(<<>>)}

MatchEmptyIn ==
    [in |-> TokenMatcher(None, None, None),
     out |-> TokenMatcher(None, Some(List(<<>>)), None)]

MatchEmptyList ==
    [in |-> TokenMatcher(None, Some(Str(ETH)), Some(List(<<>>))),
     out |-> TokenMatcher(None, Some(Str(STAR)), None)]

RuleDoc(id, enabled, priority, m, fee, valid_from, valid_until) ==
    [id |-> id, enabled |-> enabled, priority |-> priority, match |-> m, fee |-> fee,
     valid_from |-> valid_from, valid_until |-> valid_until]

RuleDocs ==
    {RuleDoc("r1", TRUE, None, MatchFromEth, FeeDoc("bps", 10, FEES_NEAR), NoDate, NoDate),
     RuleDoc("r2", TRUE, Some(200), MatchToNonEth, GoodSplit, NoDate, DateStr(2)),
     RuleDoc("r1", TRUE, Some(300), MatchFromEth, FeeDoc("bps", 10001, FEES_NEAR),
             NoDate, NoDate),
     RuleDoc("r2", TRUE, None, MatchFromEth,
             FeeList(<<FeeDoc("bps", 0 - 1, FEES_NEAR), FeeDoc("bps", 5, PARTNER_NEAR),
                       FeeDoc("fixed", 20000, DOTDOT_NEAR)>>),
             NoDate, NoDate),
     RuleDoc("r3", TRUE, Some(300), MatchFromEth, GoodFee, InvalidDateStr, NoDate),
     RuleDoc("r3", TRUE, None, MatchToNonEth, GoodFee, DateStr(1), InvalidDateStr),
     RuleDoc("r4", TRUE, None, MatchEmptyIn, GoodFee, NoDate, NoDate),
     RuleDoc("r4", TRUE, Some(300), MatchEmptyList, GoodFee, NoDate, NoDate),
     RuleDoc("", FALSE, Some(0 - 1), MatchMixed, FeeList(<<>>), NoDate, NoDate),
     RuleDoc("r5", FALSE, Some(0), MatchFromEth, FeeDoc("bps", 5, SHORT_LABEL), NoDate, NoDate),
     RuleDoc("r6", TRUE, Some(0), MatchFromEth, FeeDoc("bps", 5, ONE_CHAR), NoDate, NoDate)}

EngineConfigs ==
    {[version |-> v, default_fee |-> d, rules |-> rs] :
        v \in {"1.0.0", ""},
        d \in DefaultFeeDocs,
        rs \in SeqsUpTo(RuleDocs, MaxRules)}

EmptyCache == [a \in {} |-> TOKEN1]

Constructed == Has(engine) /\ Get(engine).constructed

\* new RuleEngine(config) on a registry that has fetched nothing yet, at an
\* instant at which such a registry is stale
InitEngine ==
    /\ config \in EngineConfigs
    /\ engine = Some(constructEngine(config))
    /\ defaultFee = config.default_fee
    /\ rules = IF constructEngine(config).constructed
               THEN sortRulesByPriority(config.rules) ELSE <<>>
    /\ cache = EmptyCache
    /\ lastFetchTime = 0
    /\ refreshPromise = None
    /\ promises = <<>>
    /\ calls = <<>>
    /\ now = cacheTtlMs
    /\ request = None
    /\ result = None
    /\ args = None
    /\ ret = None

\* RuleEngine.match at the instant of the last call or at the next one
EngineMatch ==
    /\ Constructed
    /\ \E o \in Assets, d \in Assets, t \in {now, now + 1} \cap (0..MaxTime) :
        LET req == [originAsset |-> o, destinationAsset |-> d]
            reads == [k \in 1..Len(rules) |-> t]
        IN  /\ request' = Some(req)
            /\ now' = t
            /\ result' = Some(engineMatch(req, reads, t))
            /\ UNCHANGED <<asyncVars, engine, lastFetchTime, config, rules, defaultFee, cache, args, ret>>

----------------------------------------------------------------------------
(* What the validation claims speak of: the places of a document           *)

Thrower == Has(engine) /\ ~Get(engine).constructed

NamedPaths == {Get(engine).message[k].path : k \in 1..Len(Get(engine).message)}

\* Every single fee of the document with the path of its place
FeePlaces(fee, path) ==
    IF fee.kind = "list"
    THEN {[fee |-> fee.items[k], path |-> Append(path, IndexSegment[k])] :
            k \in 1..Len(fee.items)}
    ELSE {[fee |-> fee, path |-> path]}

\* Every fee or fee list of the document with the path of its place
AllFees ==
    {[fee |-> config.default_fee, path |-> <<"default_fee">>]}
    \cup {[fee |-> config.rules[i].fee, path |-> <<"rules", IndexSegment[i], "fee">>] :
            i \in Positions}

AllFeePlaces == UNION {FeePlaces(p.fee, p.path) : p \in AllFees}

Sides == {"in", "out"}

\* Every token matcher of the document with the path of its place
AllMatchers ==
    {[matcher |-> config.rules[q[1]].match[q[2]],
      rule |-> q[1],
      path |-> <<"rules", IndexSegment[q[1]], "match", q[2]>>] : q \in Positions \X Sides}

IsEmptyString(field) == Has(field) /\ Get(field).kind = "str" /\ Get(field).s = EMPTY

IsEmptyList(field) == Has(field) /\ Get(field).kind = "list" /\ Get(field).items = <<>>

\* The paths at which the validator's rules are broken, each rule stated on
\* its own
Violations ==
    (IF config.version = "" THEN {<<"version">>} ELSE {})
    \cup {Append(p.path, "type") : p \in {q \in AllFeePlaces : q.fee.type # "bps"}}
    \cup {Append(p.path, "bps") : p \in {q \in AllFeePlaces : q.fee.bps < 0}}
    \cup {Append(p.path, "recipient") :
            p \in {q \in AllFeePlaces : ~isValidNearAccount(q.fee.recipient)}}
    \cup {p.path : p \in {q \in AllFees : q.fee.kind = "list" /\ q.fee.items = <<>>}}
    \cup {<<"rules", IndexSegment[i], "id">> :
            i \in {j \in Positions :
                    \/ config.rules[j].id = ""
                    \/ \E k \in 1..(j - 1) : config.rules[k].id = config.rules[j].id}}
    \cup {<<"rules", IndexSegment[i], "priority">> :
            i \in {j \in Positions :
                    config.rules[j].priority # None /\ config.rules[j].priority[1] < 0}}
    \cup {p.path :
            p \in {q \in AllMatchers :
                    \A f \in {"assetId", "blockchain", "symbol"} :
                        q.matcher[f] = None \/ IsEmptyString(q.matcher[f])}}

\* C16: new RuleEngine(config) succeeds exactly when the document breaks none
\* of the validator's rules, and validateConfig's valid is true exactly when
\* its error list is empty; otherwise the constructor throws, the thrown
\* error names every place at which a rule is broken, in every rule and every
\* member of every fee list, and nothing more, and there is no engine: no
\* match call ever happens.
C16_ConstructIffValid ==
    /\ Has(engine)
    /\ Get(engine).constructed <=> Violations = {}
    /\ validateConfig(config).valid <=> validateConfig(config).errors = <<>>
    /\ Get(engine).constructed <=> validateConfig(config).valid
    /\ Thrower =>
        /\ NamedPaths = Violations
        /\ request = None
        /\ result = None

\* The constructor threw on a document with two broken rules, one of them
\* with two bad members in its fee list, and a bad default fee, and named
\* all of them.
C16_Witness ==
    /\ Thrower
    /\ {<<"default_fee", "bps">>,
        <<"rules", "[0]", "match", "in">>,
        <<"rules", "[1]", "fee", "[0]", "bps">>,
        <<"rules", "[1]", "fee", "[2]", "type">>,
        <<"rules", "[1]", "fee", "[2]", "recipient">>} \subseteq NamedPaths

\* C17: validateConfig rejects every configuration in which a fee (the
\* default fee or a rule's fee, single or a member of a list) has bps below 0
\* or above 10000, with an error at that fee's bps path; bps 0 and 10000 are
\* accepted.
C17_AsStated ==
    /\ \A p \in AllFeePlaces :
        (p.fee.bps < 0 \/ p.fee.bps > 10000) =>
            /\ ~validateConfig(config).valid
            /\ Thrower
            /\ Append(p.path, "bps") \in NamedPaths
    /\ \A p \in AllFeePlaces :
        p.fee.bps \in {0, 10000} => Append(p.path, "bps") \notin NamedPaths

HasUnparseableDate(rule) ==
    \/ rule.valid_from # None /\ rule.valid_from[1].kind = "invalid"
    \/ rule.valid_until # None /\ rule.valid_until[1].kind = "invalid"

\* C18: a configuration with a rule whose valid_from or valid_until is not a
\* parseable date is rejected by validateConfig and by the constructor, so a
\* constructed engine has no such rule and its match never throws because of
\* one.
C18_AsStated ==
    /\ (\E i \in Positions : HasUnparseableDate(config.rules[i])) =>
        ~validateConfig(config).valid /\ Thrower
    /\ Called => Res # Thrown

\* C19: validateConfig rejects every rule whose match.in or match.out has
\* none of assetId, blockchain and symbol, or has one of them as an empty
\* list; so no matcher of a constructed engine is empty or holds an empty
\* list.
C19_AsStated ==
    \A p \in AllMatchers :
        (\/ \A f \in {"assetId", "blockchain", "symbol"} : p.matcher[f] = None
         \/ \E f \in {"assetId", "blockchain", "symbol"} : IsEmptyList(p.matcher[f])) =>
            /\ ~validateConfig(config).valid
            /\ Thrower

\* The selection RuleMatcher.match makes for req at instant t
MatcherResult(req, t) == match(req, [k \in 1..Len(rules) |-> t])

\* C20: a RuleEngine.match call made while the registry is not fresh throws
\* the not-ready error and returns no MatchResult, in particular not
\* matched=false with the default fee; a call made while the registry is
\* fresh returns what RuleMatcher.match returns.
C20_NotReadyIsDistinct ==
    [][EngineMatch =>
        /\ Has(result')
        /\ IF now' - lastFetchTime < cacheTtlMs
           THEN Get(result') = MatcherResult(Get(request), now)'
           ELSE /\ Get(result').threw
                /\ Get(result') = NotReady
                /\ Get(result') # unresolvedResult]_vars

\* A call on a registry that holds both tokens of the request, but is stale,
\* threw not-ready although a rule of the configuration fits the request.
C20_Witness ==
    /\ Called
    /\ Res = NotReady
    /\ cache = Registry
    /\ now - lastFetchTime >= cacheTtlMs
    /\ \E i \in Positions : config.rules[i].enabled /\ Fits(config.rules[i], Req)

----------------------------------------------------------------------------
(* CachedTokenRegistry.refresh, doRefresh and ensureFresh                   *)
(* (src/src/token-registry.ts) and RuleEngine.safeMatch                     *)
(* (src/src/rule-engine.ts lines 100-103), step by step                     *)
(*                                                                         *)
(* An asynchronous call runs until its next await in one step.  A promise  *)
(* of doRefresh is [state |-> "fetch" | "json" | "fulfilled" | "rejected", *)
(* reason |-> text]: waiting for the response, waiting for its body, or    *)
(* settled.  An entry of the fetched array is                              *)
(* [object, assetId, blockchain, symbol, decimals], a field being absent   *)
(* when it is missing or of the wrong type.                                *)

MaxCalls == 3
MaxFetches == 3

TokenEntry(token) ==
    [object |-> TRUE, assetId |-> Some(token.assetId), blockchain |-> Some(token.blockchain),
     symbol |-> Some(token.symbol), decimals |-> Some(token.decimals)]

\* An object without decimals, and an entry that is null
PartialEntry ==
    [object |-> TRUE, assetId |-> Some(ASSET3), blockchain |-> Some(ETH),
     symbol |-> Some(WBTC), decimals |-> None]

NullEntry ==
    [object |-> FALSE, assetId |-> None, blockchain |-> None, symbol |-> None,
     decimals |-> None]

isValidTokenResponse(entry) ==
    /\ entry.object
    /\ Has(entry.assetId)
    /\ Has(entry.blockchain)
    /\ Has(entry.symbol)
    /\ Has(entry.decimals)

\* newCache.set(token.assetId, {...})
cacheSet(map, entry) ==
    LET token == Token(Get(entry.assetId), Get(entry.blockchain), Get(entry.symbol),
                       Get(entry.decimals))
    IN  [a \in DOMAIN map \cup {token.assetId} |->
            IF a = token.assetId THEN token ELSE map[a]]

\* for (let i = 0; i < data.length; i++): newCache after the entries from i on
RECURSIVE buildCache(_, _, _)
buildCache(data, i, newCache) ==
    IF i > Len(data) THEN newCache
    ELSE IF ~isValidTokenResponse(data[i]) THEN buildCache(data, i + 1, newCache)
    ELSE buildCache(data, i + 1, cacheSet(newCache, data[i]))

invalidTokens(data) == {i \in 1..Len(data) : ~isValidTokenResponse(data[i])}

Pending == [state |-> "fetch", reason |-> ""]
AwaitingBody == [state |-> "json", reason |-> ""]
Fulfilled == [state |-> "fulfilled", reason |-> ""]
Rejected(reason) == [state |-> "rejected", reason |-> reason]

Settled(promise) == promise.state \in {"fulfilled", "rejected"}

\* doRefresh after await fetch(url): the fetch failed, the response is not
\* OK, or the body is awaited
afterFetch(response) ==
    IF response = "network error" THEN Rejected("network error")
    ELSE IF response = "not ok" THEN Rejected("Failed to fetch tokens")
    ELSE AwaitingBody

doRefreshTail_clearFirst(body, oldCache, oldLastFetchTime, t) ==
    IF body.kind = "invalid json"
    THEN [promise |-> Rejected("invalid json"), cache |-> oldCache,
          lastFetchTime |-> oldLastFetchTime]
    ELSE IF body.kind # "array"
    THEN [promise |-> Rejected("expected array"), cache |-> oldCache,
          lastFetchTime |-> oldLastFetchTime]
    ELSE LET newCache == buildCache(body.data, 1, EmptyCache)
         IN  IF invalidTokens(body.data) # {} /\ DOMAIN newCache = {}
             THEN [promise |-> Rejected("all tokens failed validation"),
                   cache |-> newCache, lastFetchTime |-> oldLastFetchTime]
             ELSE [promise |-> Fulfilled, cache |-> newCache, lastFetchTime |-> t]

\* doRefresh after await response.json(), at instant t: the promise it
\* settles with, and the registry's cache and lastFetchTime afterwards
doRefreshTail(body, oldCache, oldLastFetchTime, t) ==
    IF body.kind = "invalid json"
    THEN [promise |-> Rejected("invalid json"), cache |-> oldCache,
          lastFetchTime |-> oldLastFetchTime]
    ELSE IF body.kind # "array"
    THEN [promise |-> Rejected("expected array"), cache |-> oldCache,
          lastFetchTime |-> oldLastFetchTime]
    ELSE LET newCache == buildCache(body.data, 1, EmptyCache)
         IN  IF invalidTokens(body.data) # {} /\ DOMAIN newCache = {}
             THEN [promise |-> Rejected("all tokens failed validation"),
                   cache |-> oldCache, lastFetchTime |-> oldLastFetchTime]
             ELSE [promise |-> Fulfilled, cache |-> newCache, lastFetchTime |-> t]

joinsInFlight_never(marker) == FALSE

\* if (this.refreshPromise) return this.refreshPromise
joinsInFlight(marker) == Has(marker)

\* refresh() up to its await: the promise the call waits for, whether the
\* call started it, and the registry's promises and refreshPromise afterwards
refreshStart(marker, ps) ==
    IF joinsInFlight(marker)
    THEN [promise |-> Get(marker), started |-> FALSE, promises |-> ps,
          refreshPromise |-> marker]
    ELSE [promise |-> Len(ps) + 1, started |-> TRUE, promises |-> Append(ps, Pending),
          refreshPromise |-> Some(Len(ps) + 1)]

refreshFinally_keepOnFailure(marker, started, promise) ==
    IF started /\ promise.state = "fulfilled" THEN None ELSE marker

\* finally { this.refreshPromise = null }, run by the call that started the
\* fetch; a call that returned the promise in flight has no finally
refreshFinally(marker, started, promise) == IF started THEN None ELSE marker

\* The promise of doRefresh that is not settled (0: none)
inFlight(ps) ==
    IF \A p \in 1..Len(ps) : Settled(ps[p]) THEN 0
    ELSE CHOOSE p \in 1..Len(ps) : ~Settled(ps[p]) /\ \A q \in 1..(p - 1) : Settled(ps[q])

\* A call: op, where it stands, the promise it waits for (0: none), whether
\* it started that promise, how it settled, for safeMatch the request and
\* the result, and the promise that was in flight when the call was made
Call(op, pc, promise, started, outcome, reason, req, res, during) ==
    [op |-> op, pc |-> pc, promise |-> promise, started |-> started, outcome |-> outcome,
     reason |-> reason, req |-> req, result |-> res, during |-> during]

NoRequest == [originAsset |-> EMPTY, destinationAsset |-> EMPTY]

----------------------------------------------------------------------------
(* Concurrent calls on one registry and one engine *)

RegistryConfig ==
    [version |-> "1.0.0", default_fee |-> GoodFee,
     rules |-> <<RuleDoc("r1", TRUE, None, MatchFromEth, FeeDoc("bps", 10, FEES_NEAR),
                         NoDate, NoDate)>>]

Responses == {"network error", "not ok", "ok"}

Bodies ==
    {[kind |-> "invalid json", data |-> <<>>],
     [kind |-> "object", data |-> <<>>],
     [kind |-> "array", data |-> <<>>],
     [kind |-> "array", data |-> <<TokenEntry(TOKEN1), TokenEntry(TOKEN2)>>],
     [kind |-> "array", data |-> <<NullEntry, TokenEntry(TOKEN1), PartialEntry>>],
     [kind |-> "array", data |-> <<PartialEntry, NullEntry>>]}

SafeMatchRequests ==
    {[originAsset |-> ASSET1, destinationAsset |-> ASSET2],
     [originAsset |-> ASSET2, destinationAsset |-> ASSET1]}

InitRegistry ==
    /\ config = RegistryConfig
    /\ engine = Some(constructEngine(config))
    /\ defaultFee = config.default_fee
    /\ rules = sortRulesByPriority(config.rules)
    /\ cache = EmptyCache
    /\ lastFetchTime = 0
    /\ refreshPromise = None
    /\ promises = <<>>
    /\ calls = <<>>
    /\ now = cacheTtlMs
    /\ request = None
    /\ result = None
    /\ args = None
    /\ ret = None

\* A new call of refresh()
CallRefresh ==
    /\ Len(calls) < MaxCalls
    /\ LET start == refreshStart(refreshPromise, promises)
       IN  /\ Len(start.promises) <= MaxFetches
           /\ promises' = start.promises
           /\ refreshPromise' = start.refreshPromise
           /\ calls' = Append(calls, Call("refresh", "awaiting", start.promise, start.started,
                                          "", "", NoRequest, None, inFlight(promises)))
    /\ UNCHANGED <<engine, lastFetchTime, config, rules, defaultFee, cache, now, request,
                   result, args, ret>>

\* ensureFresh() up to its await, or to its end when the cache is valid: the
\* call, and the registry's promises and refreshPromise afterwards
ensureFreshStart(op, req, t) ==
    IF isCacheValid(t)
    THEN [call |-> Call(op, IF op = "safeMatch" THEN "ready" ELSE "done", 0, FALSE, "ok", "",
                        req, None, inFlight(promises)),
          promises |-> promises, refreshPromise |-> refreshPromise]
    ELSE LET start == refreshStart(refreshPromise, promises)
         IN  [call |-> Call(op, "awaiting", start.promise, start.started, "", "", req, None,
                            inFlight(promises)),
              promises |-> start.promises, refreshPromise |-> start.refreshPromise]

\* A new call of ensureFresh()
CallEnsureFresh ==
    /\ Len(calls) < MaxCalls
    /\ LET start == ensureFreshStart("ensureFresh", NoRequest, now)
       IN  /\ Len(start.promises) <= MaxFetches
           /\ promises' = start.promises
           /\ refreshPromise' = start.refreshPromise
           /\ calls' = Append(calls, start.call)
    /\ UNCHANGED <<engine, lastFetchTime, config, rules, defaultFee, cache, now, request,
                   result, args, ret>>

\* The calls of ensureReady made on one engine
MaxReadyCalls == 1

\* A new call of RuleEngine.ensureReady(), which awaits ensureFresh()
EnsureReady ==
    /\ Constructed
    /\ Len(calls) < MaxReadyCalls
    /\ LET start == ensureFreshStart("ensureReady", NoRequest, now)
       IN  /\ Len(start.promises) <= MaxFetches
           /\ promises' = start.promises
           /\ refreshPromise' = start.refreshPromise
           /\ calls' = Append(calls, start.call)
    /\ UNCHANGED <<engine, lastFetchTime, config, rules, defaultFee, cache, now, request,
                   result, args, ret>>

\* A new call of safeMatch(req), which awaits ensureReady() first
CallSafeMatch ==
    /\ Len(calls) < MaxCalls
    /\ \E req \in SafeMatchRequests :
        LET start == ensureFreshStart("safeMatch", req, now)
        IN  /\ Len(start.promises) <= MaxFetches
            /\ promises' = start.promises
            /\ refreshPromise' = start.refreshPromise
            /\ calls' = Append(calls, start.call)
    /\ UNCHANGED <<engine, lastFetchTime, config, rules, defaultFee, cache, now, request,
                   result, args, ret>>

\* The response of a fetch arrives, or the fetch fails
ResponseArrives ==
    \E p \in 1..Len(promises), response \in Responses :
        /\ promises[p].state = "fetch"
        /\ promises' = [promises EXCEPT ![p] = afterFetch(response)]
        /\ UNCHANGED <<engine, lastFetchTime, config, rules, defaultFee, cache, now, request,
                       result, args, ret, refreshPromise, calls>>

\* The body of a response arrives and doRefresh runs to its end
BodyArrives ==
    \E p \in 1..Len(promises), body \in Bodies :
        LET tail == doRefreshTail(body, cache, lastFetchTime, now)
        IN  /\ promises[p].state = "json"
            /\ promises' = [promises EXCEPT ![p] = tail.promise]
            /\ cache' = tail.cache
            /\ lastFetchTime' = tail.lastFetchTime
            /\ UNCHANGED <<engine, config, rules, defaultFee, now, request, result, args, ret,
                           refreshPromise, calls>>

\* The call that started promise p has run its finally
StarterResumed(p) ==
    \E k \in 1..Len(calls) :
        calls[k].promise = p /\ calls[k].started /\ calls[k].pc # "awaiting"

\* A call resumes after the promise it awaits has settled; the call that
\* started the promise awaited it first and resumes first
Resume ==
    \E c \in 1..Len(calls) :
        LET call == calls[c]
            promise == promises[call.promise]
            ok == promise.state = "fulfilled"
        IN  /\ call.pc = "awaiting"
            /\ Settled(promise)
            /\ call.started \/ StarterResumed(call.promise)
            /\ refreshPromise' = refreshFinally(refreshPromise, call.started, promise)
            /\ calls' = [calls EXCEPT ![c] =
                    Call(call.op,
                         IF ok /\ call.op = "safeMatch" THEN "ready" ELSE "done",
                         call.promise, call.started,
                         IF ok THEN "ok" ELSE "failed", promise.reason, call.req, None,
                         call.during)]
            /\ UNCHANGED <<engine, lastFetchTime, config, rules, defaultFee, cache, now,
                           request, result, args, ret, promises>>

\* safeMatch after await this.ensureReady(): return this.match(request)
SafeMatchReturns ==
    \E c \in 1..Len(calls) :
        LET call == calls[c]
            res == engineMatch(call.req, [k \in 1..Len(rules) |-> now], now)
        IN  /\ call.pc = "ready"
            /\ request' = Some(call.req)
            /\ result' = Some(res)
            /\ calls' = [calls EXCEPT ![c] =
                    Call(call.op, "done", call.promise, call.started,
                         IF res.threw THEN "failed" ELSE "ok",
                         IF res.threw THEN "not ready" ELSE "", call.req,
                         IF res.threw THEN None ELSE Some(res), call.during)]
            /\ UNCHANGED <<engine, lastFetchTime, config, rules, defaultFee, cache, now, args,
                           ret, refreshPromise, promises>>

\* The clock advances
Tick ==
    /\ now < MaxTime
    /\ now' = now + 1
    /\ UNCHANGED <<asyncVars, engine, lastFetchTime, config, rules, defaultFee, cache, request,
                   result, args, ret>>

\* Calls of refresh and ensureFresh on one registry
NextRefresh ==
    \/ CallRefresh
    \/ CallEnsureFresh
    \/ ResponseArrives
    \/ BodyArrives
    \/ Resume
    \/ Tick

SpecRefresh == InitRegistry /\ [][NextRefresh]_vars

\* The same with calls of safeMatch on an engine that uses the registry
NextRegistry ==
    \/ NextRefresh
    \/ CallSafeMatch
    \/ SafeMatchReturns

SpecRegistry == InitRegistry /\ [][NextRegistry]_vars

\* An engine from its construction on: calls of ensureReady, the fetches they
\* start, calls of match, and the clock
NextEngine ==
    \/ EnsureReady
    \/ ResponseArrives
    \/ BodyArrives
    \/ Resume
    \/ EngineMatch
    \/ Tick

SpecEngine == InitEngine /\ [][NextEngine]_vars

\* The same calls on the engine of one valid configuration
SpecReady == InitRegistry /\ [][NextEngine]_vars

\* Engines that are constructed, or not, and never made ready
SpecValidate == InitEngine /\ [][EngineMatch]_vars

----------------------------------------------------------------------------
(* Claims about the registry and safeMatch *)

SafeMatchDone(c) == calls[c].op = "safeMatch" /\ calls[c].pc = "done"

\* The ensureFresh a call awaited succeeded: the cache was valid when the call
\* was made, or the promise it awaited was fulfilled
EnsureSucceeded(c) ==
    calls[c].promise = 0 \/ promises[calls[c].promise].state = "fulfilled"

\* C21 as stated: a safeMatch whose ensureFresh succeeded returns a
\* MatchResult and never fails with 'not ready'; a safeMatch whose ensureFresh
\* failed fails and returns no result
C21_AsStated ==
    \A c \in 1..Len(calls) :
        SafeMatchDone(c) =>
            IF EnsureSucceeded(c)
            THEN /\ calls[c].outcome = "ok"
                 /\ calls[c].reason # "not ready"
                 /\ Has(calls[c].result)
            ELSE /\ calls[c].outcome = "failed"
                 /\ ~Has(calls[c].result)

AtMostOneInFlight ==
    Cardinality({p \in 1..Len(promises) : ~Settled(promises[p])}) <= 1

OutcomeOfPromise(p) == IF promises[p].state = "fulfilled" THEN "ok" ELSE "failed"

\* Call c was made while a fetch was in flight, started no fetch of its own
\* and, once both have settled, has the outcome of that fetch
SharesInFlight(c) ==
    /\ ~calls[c].started
    /\ calls[c].pc = "done" /\ Settled(promises[calls[c].during]) =>
          /\ calls[c].outcome = OutcomeOfPromise(calls[c].during)
          /\ calls[c].reason = promises[calls[c].during].reason

\* C22 as stated: at most one fetch is in flight at any time, and every
\* refresh or ensureFresh call made while a fetch is in flight starts no second
\* fetch and settles with the outcome of the fetch in flight
C22_AsStated ==
    /\ AtMostOneInFlight
    /\ \A c \in 1..Len(calls) : calls[c].during # 0 => SharesInFlight(c)

\* C22, amended: at most one fetch is in flight at any time, and every call
\* that needs a fetch (refresh, or ensureFresh on an expired cache) made while
\* a fetch is in flight awaits that fetch, starts no second one and settles
\* with its outcome, success or the same failure
C22_SingleInFlightFetch ==
    /\ AtMostOneInFlight
    /\ \A c \in 1..Len(calls) :
          calls[c].during # 0 /\ calls[c].promise # 0 =>
              /\ calls[c].promise = calls[c].during
              /\ SharesInFlight(c)

\* Two calls have settled with the failure of the one fetch they shared
C22_Witness ==
    \E c, d \in 1..Len(calls) :
        /\ c # d
        /\ calls[c].started /\ calls[d].during = calls[c].promise
        /\ calls[d].promise = calls[c].promise
        /\ calls[c].pc = "done" /\ calls[d].pc = "done"
        /\ calls[d].outcome = "failed"
        /\ calls[d].reason = "all tokens failed validation"
        /\ calls[c].reason = calls[d].reason
        /\ Len(promises) = 1

\* The step settles promise p of doRefresh with a failure
FailsNow(p) == ~Settled(promises[p]) /\ promises'[p].state = "rejected"

\* The refresh that started the latest fetch has failed and has settled
LastRefreshFailed ==
    /\ promises # <<>>
    /\ promises[Len(promises)].state = "rejected"
    /\ StarterResumed(Len(promises))

\* The step is a new call, and the call starts a fetch of its own
NewCall == Len(calls') = Len(calls) + 1

NewCallFetches ==
    /\ calls'[Len(calls')].started
    /\ calls'[Len(calls')].promise = Len(promises) + 1
    /\ promises' = Append(promises, Pending)

\* A failing fetch changes neither the cache nor the last-fetch time, and the
\* refresh that started it leaves the marker cleared
FailureLeavesState ==
    /\ [][\A p \in 1..Len(promises) :
            FailsNow(p) => cache' = cache /\ lastFetchTime' = lastFetchTime]_vars
    /\ [](LastRefreshFailed => refreshPromise = None)

\* C24 as stated: a refresh that fails leaves the cache and the last-fetch
\* time as they were and clears the in-flight marker, and the next refresh or
\* ensureFresh call issues a new fetch
C24_AsStated ==
    /\ FailureLeavesState
    /\ [][LastRefreshFailed /\ NewCall => NewCallFetches]_vars

\* C24, amended: a refresh that fails leaves the cache and the last-fetch time
\* as they were and clears the in-flight marker; the next refresh call, and
\* the next ensureFresh call on an expired cache, issues a new fetch, and an
\* ensureFresh call on a cache that is still valid succeeds without one
C24_FailedRefreshLeavesState ==
    /\ FailureLeavesState
    /\ [][LastRefreshFailed /\ NewCall =>
            IF calls'[Len(calls')].op = "ensureFresh" /\ isCacheValid(now)
            THEN /\ calls'[Len(calls')].outcome = "ok"
                 /\ calls'[Len(calls')].promise = 0
                 /\ promises' = promises
            ELSE NewCallFetches]_vars

\* After a fetch that filled the cache, a refresh has failed on a body whose
\* entries are all invalid, the tokens are still there and the next call has
\* started a third fetch
C24_Witness ==
    /\ Len(promises) = 3
    /\ promises[1].state = "fulfilled"
    /\ promises[2] = Rejected("all tokens failed validation")
    /\ ~Settled(promises[3])
    /\ DOMAIN cache = {ASSET1, ASSET2}
    /\ lastFetchTime = 1
    /\ calls[2].pc = "done" /\ calls[2].outcome = "failed"
    /\ calls[3].started /\ calls[3].promise = 3
    /\ refreshPromise = Some(3)

----------------------------------------------------------------------------
(* match calls during which the clock advances: isRuleValidNow reads        *)
(* Date.now() once for every rule it is asked about                         *)

\* The instants n successive reads of a clock can return between lo and hi
ClockReads(n, lo, hi) ==
    {reads \in [1..n -> lo..hi] : \A i \in 1..n : \A j \in i..n : reads[i] <= reads[j]}

\* One call of RuleMatcher.match that starts at instant t; args keeps the
\* instant the call started at and now is the instant it returns at
MatchAcrossTicks ==
    \E o \in Assets, d \in Assets, t \in {now, now + 1} \cap (0..MaxTime) :
      \E reads \in ClockReads(Len(rules), t, MaxTime) :
        LET req == [originAsset |-> o, destinationAsset |-> d]
        IN  /\ request' = Some(req)
            /\ args' = Some([start |-> t])
            /\ now' = IF reads = <<>> THEN t ELSE reads[Len(reads)]
            /\ result' = Some(match(req, reads))
            /\ UNCHANGED <<asyncVars, engine, lastFetchTime, config, rules, defaultFee, cache,
                           ret>>

NextClock == MatchAcrossTicks

SpecClock == Init /\ [][NextClock]_vars

\* C23 as stated: the result of a match call is the selection that holds at
\* one single instant between the start and the end of the call, also when
\* the clock advances between the evaluation of two rules
C23_AsStated ==
    (Called /\ BothResolved(Req)) =>
        \E t \in Get(args).start..now :
            /\ Res.rule = SelectionAt(Req, t)
            /\ Res.fee = FeeAt(Req, t)

----------------------------------------------------------------------------
(* matchesToken on matchers whose assetId is a wildcard, a negation or a    *)
(* list                                                                     *)

NOT_ASSET1 == <<"!">> \o ASSET1

AssetIdItemPool == {ASSET1, ASSET2, NOT_ASSET1, STAR}

AssetIdPatterns ==
    {Str(p) : p \in AssetIdItemPool \cup {UNKNOWN_ASSET}}
    \cup {List(q) : q \in SeqsUpTo(AssetIdItemPool, MaxListLen)}

AssetIdCalls ==
    {[op |-> "matchesToken", matcher |-> TokenMatcher(Some(a), b, None), token |-> tk] :
        a \in AssetIdPatterns, b \in {None, Some(Str(ETH))}, tk \in Tokens}

InitAssetId ==
    /\ args \in AssetIdCalls
    /\ ret = None
    /\ config = FeeConfig(<<>>)
    /\ defaultFee = config.default_fee
    /\ rules = <<>>
    /\ cache = Registry
    /\ engine = None
    /\ lastFetchTime = 0
    /\ refreshPromise = None
    /\ promises = <<>>
    /\ calls = <<>>
    /\ now = 0
    /\ request = None
    /\ result = None

NextAssetId == CallMatchesToken

SpecAssetId == InitAssetId /\ [][NextAssetId]_vars

\* C25: the assetId constraint takes every pattern kind with the semantics of
\* blockchain and symbol: the matcher succeeds iff the assetId pattern
\* (wildcard, negation, exact string, or a list of which one element matches)
\* accepts the token's assetId and the chain constraint, if any, accepts its
\* chain; the same pattern placed in blockchain decides the same way on a
\* token whose chain is that assetId; a list raises no error: the call returns
\* null or a TokenMatchInfo that names assetId
C25_AssetIdPatterns ==
    TokenCall =>
        LET pattern == Get(args.matcher.assetId)
            token == args.token
            asChain == TokenMatcher(None, Some(pattern), None)
            succeeded == Get(ret) # None
        IN  /\ succeeded <=>
                /\ ReferenceMatches(pattern, token.assetId)
                /\ Present(args.matcher, "blockchain") =>
                      ReferenceMatches(Get(args.matcher.blockchain), token.blockchain)
            /\ Present(args.matcher, "blockchain") \/
                  (succeeded <=>
                      Succeeds(asChain, [token EXCEPT !.blockchain = token.assetId]))
            /\ succeeded =>
                  /\ Get(ret)[1].token = token
                  /\ "assetId" \in Get(ret)[1].matchedBy

\* A list of asset ids accepted a token through its second element, and the
\* matcher succeeded
C25_Witness ==
    /\ TokenCall
    /\ args.matcher.assetId = Some(List(<<ASSET2, ASSET1>>))
    /\ args.token = TOKEN1
    /\ Get(ret) # None

----------------------------------------------------------------------------
(* Direction of a rule *)

CachedTokens == {cache[a] : a \in DOMAIN cache}

\* Of the tokens in the registry, the matcher accepts x and no other
FitsOnly(matcher, x) ==
    \A tk \in CachedTokens : matchesToken(matcher, tk) # None <=> tk = x

\* The rule's in-matcher accepts only x and its out-matcher only y, x # y
Directional(r, x, y) ==
    /\ x # y
    /\ FitsOnly(r.match.in, x)
    /\ FitsOnly(r.match.out, y)

\* C26: match.in is tried on the origin token and match.out on the destination
\* token: the returned rule accepts the origin with match.in and the
\* destination with match.out, and a rule whose in-matcher fits only X and
\* whose out-matcher fits only Y is never returned for the request from Y to
\* X and, enabled and in its window, is returned for the request from X to Y
\* unless a rule ordered before it also matches
C26_Directional ==
    (Called /\ BothResolved(Req)) =>
        LET origin == cache[Req.originAsset]
            destination == cache[Req.destinationAsset]
        IN  /\ Res.rule = SelectionAt(Req, now)
            /\ \A i \in Positions :
                LET r == config.rules[i]
                IN  /\ Returned(i) =>
                        /\ matchesToken(r.match.in, origin) # None
                        /\ matchesToken(r.match.out, destination) # None
                    /\ Directional(r, destination, origin) => ~Returned(i)
                    /\ (/\ Directional(r, origin, destination)
                        /\ r.enabled
                        /\ InWindow(r, now)
                        /\ \A j \in EligibleAt(Req, now) \ {i} :
                              \/ EffectivePriority(config.rules[j]) < EffectivePriority(r)
                              \/ EffectivePriority(config.rules[j]) = EffectivePriority(r)
                                 /\ i < j)
                       => Returned(i)

\* A rule whose in-matcher fits only the first token and whose out-matcher
\* fits only the second is the only rule, and the request from the second to
\* the first got the default fee
C26_Witness ==
    /\ Called
    /\ Req = [originAsset |-> ASSET2, destinationAsset |-> ASSET1]
    /\ Len(config.rules) = 1
    /\ config.rules[1].enabled
    /\ Directional(config.rules[1], TOKEN1, TOKEN2)
    /\ ~Res.matched
    /\ Res.fee = config.default_fee

----------------------------------------------------------------------------
(* Total rate of the fees of an accepted configuration *)

SampleAmount == BigintAmount(100)

\* calculateFee(amount, getTotalBps(fee)) returns, and returns at most amount
TotalFeeWithinAmount(fee) ==
    LET out == calculateFee(SampleAmount, Num(getTotalBps(fee)))
    IN  /\ ~out.threw
        /\ BigIntOfString(out.value) <= SampleAmount.v

\* C27 as stated: in a configuration the engine was constructed on, the total
\* rate of default_fee and of every rule's fee lies in 0..10000, and on the
\* fee of every MatchResult calculateFee with the total rate returns a fee
\* that is at most the amount
C27_AsStated ==
    Constructed =>
        /\ \A p \in AllFees : getTotalBps(p.fee) \in 0..MAX_BPS
        /\ (Called /\ ~Res.threw) => TotalFeeWithinAmount(Res.fee)

----------------------------------------------------------------------------
(* A split fee paid out: calculateFee on every member's bps and on the      *)
(* total rate, all on the same amount                                       *)

MaxMembers == 3

MemberBps == {0, 1, 3333, 4999, 5000, 10000}

ShareAmounts ==
    {BigintAmount(v) : v \in AmountValues}
    \cup {StringAmount(bigintToString(v)) : v \in AmountValues}

\* Split fees of one to MaxMembers members whose rates add up to at most the cap
Splits ==
    {FeeList([k \in 1..Len(q) |-> Fee(q[k], "fees.near")]) :
        q \in {r \in SeqsUpTo(MemberBps, MaxMembers) : Len(r) >= 1 /\ 
                  getTotalBps(FeeList([k \in 1..Len(r) |-> Fee(r[k], "fees.near")])) <= MAX_BPS}}

ShareCalls == {[op |-> "split", amount |-> a, fee |-> f] : a \in ShareAmounts, f \in Splits}

InitShare ==
    /\ args \in ShareCalls
    /\ ret = <<>>
    /\ config = FeeConfig(<<>>)
    /\ defaultFee = config.default_fee
    /\ rules = <<>>
    /\ cache = Registry
    /\ engine = None
    /\ lastFetchTime = 0
    /\ refreshPromise = None
    /\ promises = <<>>
    /\ calls = <<>>
    /\ now = 0
    /\ request = None
    /\ result = None

\* calculateFee(amount, member.bps) for every member of the split
CallMemberFees ==
    /\ args.op = "split"
    /\ ~CalledFn("members")
    /\ ret' = Append(ret, [fn |-> "members",
                           out |-> [k \in 1..Len(args.fee.items) |->
                                       calculateFee(args.amount, Num(args.fee.items[k].bps))]])
    /\ UNCHANGED <<asyncVars, engine, lastFetchTime, config, rules, defaultFee, cache, now,
                   request, result, args>>

\* calculateFee(amount, getTotalBps(fee))
CallTotalFee ==
    /\ args.op = "split"
    /\ ~CalledFn("total")
    /\ ret' = Append(ret, [fn |-> "total",
                           out |-> calculateFee(args.amount, Num(getTotalBps(args.fee)))])
    /\ UNCHANGED <<asyncVars, engine, lastFetchTime, config, rules, defaultFee, cache, now,
                   request, result, args>>

NextShare == CallMemberFees \/ CallTotalFee

SpecShare == InitShare /\ [][NextShare]_vars

RECURSIVE SumOfFees(_, _)
SumOfFees(outs, i) ==
    IF i > Len(outs) THEN 0 ELSE PlaceSum(outs[i].value, 1) + SumOfFees(outs, i + 1)

\* C28: for a split whose members are each in 0..10000 and add up to at most
\* 10000, and a non-negative amount, every member's calculateFee and the
\* calculateFee on the total rate return, the members' fees add up to at most
\* the fee on the total rate, and fall short of it by less than the number
\* of members
C28_SplitSumWithinTotal ==
    (CalledFn("members") /\ CalledFn("total")) =>
        LET outs == OutcomeOf("members")
            total == OutcomeOf("total")
            n == Len(args.fee.items)
        IN  /\ \A k \in 1..n : ~outs[k].threw /\ AllDigits(outs[k].value)
            /\ ~total.threw /\ AllDigits(total.value)
            /\ SumOfFees(outs, 1) <= PlaceSum(total.value, 1)
            /\ PlaceSum(total.value, 1) - SumOfFees(outs, 1) < n

\* Three members of 3333 bps on the amount 9999: each gets 3332 and the fee on
\* the total rate is 9998, two units more than the members' fees together
C28_Witness ==
    /\ CalledFn("members") /\ CalledFn("total")
    /\ Len(args.fee.items) = 3
    /\ AmountOf(args.amount) = 9999
    /\ \A k \in 1..3 : args.fee.items[k].bps = 3333
    /\ SumOfFees(OutcomeOf("members"), 1) = 9996
    /\ PlaceSum(OutcomeOf("total").value, 1) = 9998

----------------------------------------------------------------------------
(* The matcher from its construction on: new RuleMatcher(config, registry), *)
(* match calls, and a registry whose contents change between calls          *)

\* config.rules.sort(...) in place: the caller's list is reordered
constructMatcher_sortInPlace(cfg) ==
    [config |-> [cfg EXCEPT !.rules = sortRulesByPriority(cfg.rules)],
     defaultFee |-> cfg.default_fee,
     rules |-> sortRulesByPriority(cfg.rules)]

\* The constructor: the fields of the new matcher, and the caller's config
\* afterwards
constructMatcher(cfg) ==
    [config |-> cfg,
     defaultFee |-> cfg.default_fee,
     rules |-> sortRulesByPriority(cfg.rules)]

MatcherConstructed == ret # None

\* A rule without a priority, and a rule with a priority and a window
FrameRulePool ==
    {RuleBody(TRUE, None, MatchFromEth, NoDate, NoDate),
     RuleBody(TRUE, Some(200), MatchFromEth, DateStr(1), NoDate)}

FrameConfigs ==
    {c \in Configs :
        \A i \in 1..Len(c.rules) : \E b \in FrameRulePool : c.rules[i] = Rule(i, b)}

\* The caller holds a configuration; no matcher exists yet
InitFrame ==
    /\ config \in FrameConfigs
    /\ ret = None
    /\ rules = <<>>
    /\ defaultFee = config.default_fee
    /\ cache = Registry
    /\ engine = None
    /\ lastFetchTime = 0
    /\ refreshPromise = None
    /\ promises = <<>>
    /\ calls = <<>>
    /\ now = 0
    /\ request = None
    /\ result = None
    /\ args = None

Construct ==
    /\ ~MatcherConstructed
    /\ LET made == constructMatcher(config)
       IN  /\ config' = made.config
           /\ rules' = made.rules
           /\ defaultFee' = made.defaultFee
    /\ ret' = Some("RuleMatcher")
    /\ UNCHANGED <<asyncVars, engine, lastFetchTime, cache, now, request, result, args>>

\* One call of match on the constructed matcher; args keeps the instant of
\* the call and the registry contents it ran against
MatchConstructed ==
    /\ MatcherConstructed
    /\ \E o \in {ASSET1, ASSET2}, d \in {ASSET1, ASSET2}, t \in {now, now + 1} \cap (0..MaxTime) :
        LET req == [originAsset |-> o, destinationAsset |-> d]
            reads == [k \in 1..Len(rules) |-> t]
        IN  /\ request' = Some(req)
            /\ now' = t
            /\ args' = Some([instant |-> t, registry |-> cache])
            /\ result' = Some(match(req, reads))
    /\ UNCHANGED <<asyncVars, engine, lastFetchTime, config, rules, defaultFee, cache, ret>>

\* The calls of refresh made on the registry the matcher was given
MaxRefreshes == 1

\* A new call of refresh() on the registry the matcher was given, made when
\* the calls before it have returned
RegistryRefresh ==
    /\ Len(calls) < MaxRefreshes
    /\ \A c \in 1..Len(calls) : calls[c].pc = "done"
    /\ CallRefresh

\* The matcher's construction, its match calls, and refreshes of the registry
\* it was given
NextFrame ==
    \/ Construct
    \/ MatchConstructed
    \/ RegistryRefresh
    \/ ResponseArrives
    \/ BodyArrives
    \/ Resume
    \/ Tick

SpecFrame == InitFrame /\ [][NextFrame]_vars

\* C29: constructing the matcher leaves config.rules as the caller wrote it;
\* from the construction on no step changes the sorted rule list or the
\* default fee, a match call leaves the registry (its contents, its fetch
\* time, its refreshes in flight) as it was, and a
\* call that repeats the request of the last call at the same instant on the
\* same registry contents (args) returns the same result
C29_MatchChangesNothing ==
    /\ [][config' = config]_vars
    /\ [][MatcherConstructed => rules' = rules /\ defaultFee' = defaultFee]_vars
    /\ [][MatchConstructed =>
            cache' = cache /\ lastFetchTime' = lastFetchTime /\ asyncVars' = asyncVars]_vars
    /\ [][(/\ MatcherConstructed
           /\ Called
           /\ request' = request
           /\ args' = args) => result' = result]_vars

\* The caller's list is not in priority order, the matcher holds it sorted,
\* and a call returned the rule written last
C29_Witness ==
    /\ MatcherConstructed
    /\ Called
    /\ Len(config.rules) = 2
    /\ rules = <<config.rules[2], config.rules[1]>>
    /\ Res.matched
    /\ Res.rule = Some(config.rules[2])

----------------------------------------------------------------------------
(* The default priority *)

NoPriority(r) == r.priority = None

\* The rule with its priority written out, 100 where the field is missing
WithPriorityWritten(r) ==
    [r EXCEPT !.priority = IF NoPriority(r) THEN Some(100) ELSE r.priority]

\* C30: a rule without a priority field is ordered as if its priority were
\* 100: the matcher's list is the list it would keep had 100 been written in
\* every such rule; among the eligible rules one without priority excludes
\* every rule with a priority below 100 and is excluded by every rule with a
\* priority above 100, and of a rule without priority and a rule with an
\* explicit 100 the later one in the configuration is not returned; an
\* explicit 0 is kept as 0: such a rule is never returned when a rule without
\* priority, or with a positive priority, is eligible
C30_DefaultPriority ==
    /\ [k \in 1..Len(rules) |-> WithPriorityWritten(rules[k])]
          = sortRulesByPriority([i \in Positions |-> WithPriorityWritten(config.rules[i])])
    /\ \A k \in 1..(Len(rules) - 1) :
          Get(WithPriorityWritten(rules[k]).priority)
              >= Get(WithPriorityWritten(rules[k + 1]).priority)
    /\ (Called /\ BothResolved(Req)) =>
        LET E == EligibleAt(Req, now)
        IN  \A i \in E : \A j \in E \ {i} :
                LET r == config.rules[i]
                    q == config.rules[j]
                IN  /\ (NoPriority(r) /\ ~NoPriority(q) /\ Get(q.priority) < 100) => ~Returned(j)
                    /\ (NoPriority(r) /\ ~NoPriority(q) /\ Get(q.priority) > 100) => ~Returned(i)
                    /\ (NoPriority(r) /\ q.priority = Some(100)) =>
                          IF i < j THEN ~Returned(j) ELSE ~Returned(i)
                    /\ (r.priority = Some(0) /\ (NoPriority(q) \/ Get(q.priority) > 0)) =>
                          ~Returned(i)

\* A rule with the explicit priority 0 is written first, a rule without
\* priority second, both match, and the second is returned
C30_Witness ==
    /\ Called
    /\ BothResolved(Req)
    /\ Len(config.rules) = 2
    /\ config.rules[1].priority = Some(0)
    /\ NoPriority(config.rules[2])
    /\ EligibleAt(Req, now) = {1, 2}
    /\ Returned(2)

====
